---- MODULE Spec2Model ----
(***************************************************************************)
(* Task Manager: the Task entity (models/Task) and the SQLite-backed task  *)
(* store (services/DatabaseService), modelled as a state machine.          *)
(*                                                                         *)
(* Representation                                                          *)
(*   string title      [pad |-> p, body |-> b]: p blanks and b non-blank   *)
(*                     characters, so length = p + b, trim().length = b    *)
(*   Date              a natural number (the clock value)                  *)
(*   Date | null       <<>> for null, <<d>> for a Date                     *)
(*   optional field    <<>> for undefined (not supplied), <<v>> otherwise  *)
(*   ISO text          [iso |-> d], what toISOString() stores in a column  *)
(*   sqlite3.Database  a connection number 1..MaxConn; this.db = 0 is null *)
(*   HTTP request      a slot 1..MaxRequests holding the route, the body    *)
(*                     and the await its handler is suspended at            *)
(*   Task object       entity.obj: <<>> before a construction succeeded,    *)
(*                     else <<the fields>>                                  *)
(***************************************************************************)
EXTENDS Integers, Sequences, FiniteSets, TLC

\* ---------------------------------------------------------------- bounds
MaxTime == 1
MaxPending == 2
MaxConn == 2
MaxCalls == 3
MaxRequests == 1
MaxFetches == 3
MaxHandlers == 2

\* ------------------------------------------------------ program constants
MaxTitleLength == 255
MaxRetries == 3

\* ------------------------------------------------------------ input sets
Ids == {"t1", "t2", "t3"}

Title(p, b) == [pad |-> p, body |-> b]
TitleA == Title(0, 1)
TitleB == Title(0, 2)
EmptyTitle == Title(0, 0)
BlankTitle == Title(1, 0)
LongTitle == Title(0, MaxTitleLength + 1)

Null == <<>>
Undefined == <<>>
NoError == "none"

\* ------------------------------------------------------------ Task entity
Length(title) == title.pad + title.body

Trim(title) == [pad |-> 0, body |-> title.body]

\* Faulty variant: the length limit is off by one
validateTitle_OffByOne(title) ==
  IF Length(title) = 0 \/ Length(Trim(title)) = 0
    THEN "Task title cannot be empty"
    ELSE IF Length(title) > MaxTitleLength + 1
           THEN "Task title cannot exceed 255 characters"
           ELSE NoError

\* validateTitle: the error it throws, or NoError
validateTitle(title) ==
  IF Length(title) = 0 \/ Length(Trim(title)) = 0
    THEN "Task title cannot be empty"
    ELSE IF Length(title) > MaxTitleLength
           THEN "Task title cannot exceed 255 characters"
           ELSE NoError

\* validateId: ids are plain strings here, "" and " " are the blank ones
validateId(id) ==
  IF id = "" \/ id = " " THEN "Task ID cannot be empty" ELSE NoError

\* validateDueDate against the clock value read by new Date()
validateDueDate(dueDate, clock) ==
  IF dueDate # Null /\ dueDate[1] < clock
    THEN "Due date cannot be in the past"
    ELSE NoError

\* Faulty variant: the constructor validates the id before the title
TaskError_IdFirst(id, title, dueDate, clock) ==
  IF validateId(id) # NoError THEN validateId(id)
  ELSE IF validateTitle(title) # NoError THEN validateTitle(title)
  ELSE validateDueDate(dueDate, clock)

\* The error the constructor throws (first failing check), or NoError
TaskError(id, title, dueDate, clock) ==
  IF validateTitle(title) # NoError THEN validateTitle(title)
  ELSE IF validateId(id) # NoError THEN validateId(id)
  ELSE validateDueDate(dueDate, clock)

\* Faulty variant: the constructor stores the trimmed title
Task_Trimmed(id, title, description, completed, dueDate, createdAt) ==
  [id |-> id, title |-> Trim(title), description |-> description,
   completed |-> completed, dueDate |-> dueDate, createdAt |-> createdAt]

\* The entity the constructor builds when no check fails
Task(id, title, description, completed, dueDate, createdAt) ==
  [id |-> id, title |-> title, description |-> description,
   completed |-> completed, dueDate |-> dueDate, createdAt |-> createdAt]

\* ------------------------------------------------------------- store rows
toISOString(d) == [iso |-> d]

parseDate(text) == text.iso

\* params of the INSERT statement: the row written for an entity
TaskToRow(task) ==
  [id |-> task.id, title |-> task.title, description |-> task.description,
   completed |-> IF task.completed THEN 1 ELSE 0,
   createdAt |-> toISOString(task.createdAt),
   dueDate |-> IF task.dueDate # Null
                 THEN <<toISOString(task.dueDate[1])>> ELSE Null]

\* rowToTask: the arguments it passes to the Task constructor
rowDueDate(row) ==
  IF row.dueDate # Null THEN <<parseDate(row.dueDate[1])>> ELSE Null

rowToTaskError(row, clock) ==
  TaskError(row.id, row.title, rowDueDate(row), clock)

rowToTask(row) ==
  Task(row.id, row.title,
       IF row.description = "" THEN "" ELSE row.description,
       row.completed = 1, rowDueDate(row), parseDate(row.createdAt))

\* ------------------------------------------------------------ error names
NotInitialized == "Database not initialized"
NotFound == "Task with id not found"
DuplicateId == "Failed to add task: SQLITE_CONSTRAINT"
StorageFailure == "Failed: engine error"
ParseFailure == "Failed to parse task"

DataOps == {"addTask", "getTasks", "getTaskById", "updateTask", "deleteTask",
            "getTaskCount", "getCompletedCount", "clearAll"}

\* ------------------------------------------------------------------ state
VARIABLES
  now,      \* the clock read by new Date()
  dbPath,   \* constructor argument: ":memory:" or a file path
  db,       \* this.db: 0 for null, else the connection it refers to
  conns,    \* connection -> "unused" | "opening" | "open" | "failed" | "closed"
  initP,    \* promise of the c-th initialize(): "none" | "pending" | "resolved" | "rejected"
  schema,   \* storages in which the tasks table exists
  tables,   \* storage -> set of rows of the tasks table
  pending,  \* statements handed to sqlite3 whose callback has not run yet
  last,     \* the promise settled last: operation, argument and outcome
  calls,    \* number of statements and closes handed to sqlite so far
  batch,    \* history: the writes handed in since no write was in flight
  http,     \* request slot -> the HTTP request a route handler is serving
  entity,   \* the Task object a caller holds, and its last method call
  client,   \* call slot -> a call of a TaskClient method and its retry loop
  app       \* TaskManagerApp: isLoading, the rendered list, running handlers

vars ==
  <<now, dbPath, db, conns, initP, schema, tables, pending, last, calls, batch,
    http, entity, client, app>>

Conns == 1..MaxConn

\* An in-memory database is private to its connection, a file is shared
Storage(c) == IF dbPath = ":memory:" THEN c ELSE 0

Storages == 0..MaxConn

NoUpdates ==
  [title |-> Undefined, description |-> Undefined,
   completed |-> Undefined, dueDate |-> Undefined]

\* The variable a caller keeps a Task in: the object (none before the first
\* successful construction), and the last constructor or method call on it
\* with its arguments, the error it threw and the boolean it returned; copy
\* is the second Task the caller holds (a clone), none before the first clone
NoArgs == [id |-> "", title |-> EmptyTitle, dueDate |-> Null]

NoEntity ==
  [obj |-> <<>>, op |-> "none", args |-> NoArgs, err |-> NoError, ret |-> FALSE,
   copy |-> <<>>]

\* Request bodies (JSON): a field is undefined when the body does not have it
NoBody == NoUpdates

Requests == 1..MaxRequests

\* the data of a statistics response
NoStats == [total |-> 0, completed |-> 0, pending |-> 0]

\* A request slot: the route serving it, where its handler is ("arrived"
\* before it starts, "done" once it has answered), the outcome of the store
\* call it awaits, and the response once it is sent (status, error, and the
\* data of a statistics or task list response)
NoRequest ==
  [route |-> "none", id |-> "", body |-> NoBody, upd |-> NoUpdates,
   stage |-> "idle", got |-> <<>>, status |-> 0, error |-> NoError,
   stats |-> NoStats, tasks |-> <<>>]

Fetches == 1..MaxFetches

\* A call of a TaskClient method: the method and its arguments, the retries
\* its retryRequest has left, where it is ("ready" to call fn, "sent" while
\* fetch is awaited, then "resolved" or "rejected"), the request slot its
\* fetch went to, the error it rejected with and the task list it resolved
\* with; attempts, failed, thrown and base are history: the calls of fn, the
\* ones that threw, the error of the latest one, and the number of stored
\* rows when the method was called
NoCall ==
  [op |-> "none", id |-> "", body |-> NoBody, retries |-> 0, stage |-> "idle",
   slot |-> 0, error |-> NoError, tasks |-> <<>>, attempts |-> 0, failed |-> 0,
   thrown |-> NoError, base |-> 0]

\* handler 0 is initialize(), the others are runs of the event handlers
Handlers == 0..MaxHandlers

\* A run of initialize, handleAddTask, handleToggleTask or handleDeleteTask:
\* where it is ("mutating" while its client call is awaited, "loading"
\* inside its loadTasks, then "done"), the call slots it awaits, and whether
\* its mutation succeeded (history)
NoHandler ==
  [op |-> "none", id |-> "", stage |-> "idle", fetch |-> 0, tasks |-> 0,
   stats |-> 0, ok |-> FALSE]

\* TaskManagerApp after construction: rendered is the list last passed to
\* renderTasks, none before the first call; listening tells that the event
\* listeners are attached and formEnabled that the form is not disabled
NoApp ==
  [isLoading |-> FALSE, rendered |-> <<>>, listening |-> FALSE,
   formEnabled |-> TRUE, handlers |-> [k \in Handlers |-> NoHandler]]

InitializeSucceeded == \E c \in Conns : initP[c] = "resolved"

WasClosed == \E c \in Conns : conns[c] = "closed" /\ initP[c] = "resolved"

\* History: the state of the connection lifecycle Uninitialized -> Ready -> Closed
Lifecycle ==
  IF WasClosed THEN "Closed"
  ELSE IF InitializeSucceeded THEN "Ready" ELSE "Uninitialized"

\* A settled promise; phase, seen and over are history: the lifecycle state
\* when it was called and, for an updateTask that wrote, the row its read saw
\* and the row its UPDATE replaced
Outcome(op, id, res) ==
  [op |-> op, id |-> id, res |-> res, task |-> <<>>, tasks |-> <<>>, n |-> 0,
   phase |-> Lifecycle, seen |-> <<>>, over |-> <<>>]

FreeSlots == (1..MaxPending) \ {p.k : p \in pending}

NextSlot == CHOOSE k \in FreeSlots : \A j \in FreeSlots : k <= j

Reads == {"getTasks", "getTaskById", "getTaskCount", "getCompletedCount"}

\* History of the writes handed in since no write was in flight: the row
\* count at that moment, the ids handed to addTask, whether only addTask calls
\* with new, pairwise distinct ids were made, and how many of them resolved
NoBatch == [count |-> 0, ids |-> {}, clean |-> TRUE, ok |-> 0]

Writers == {p \in pending : p.op \notin Reads}

BatchAfter(op, id) ==
  IF op \in Reads THEN batch
  ELSE LET base == IF Writers = {}
                     THEN [NoBatch EXCEPT
                             !.count = Cardinality(tables[Storage(db)])]
                     ELSE batch
       IN IF op = "addTask"
            THEN [base EXCEPT
                    !.ids = @ \cup {id},
                    !.clean = /\ base.clean
                              /\ id \notin base.ids
                              /\ ~\E r \in tables[Storage(db)] : r.id = id]
            ELSE [base EXCEPT !.clean = FALSE]

ClosePending(c) == \E p \in pending : p.op = "close" /\ p.conn = c

\* A statement handed to connection c now; phase and seen are history: the
\* lifecycle state at the call, and the row updateTask read before its UPDATE;
\* req is the request slot of the route handler that made the call, 0 if none
Statement(k, op, c, id, row, upd, init) ==
  [k |-> k, op |-> op, conn |-> c, id |-> id, row |-> row, upd |-> upd,
   init |-> init, late |-> ClosePending(c), phase |-> Lifecycle,
   seen |-> <<>>, req |-> 0]

\* the promise of statement p settles with o: a route handler awaiting it
\* receives the outcome
Deliver(p, o) ==
  IF p.req = 0 THEN http ELSE [http EXCEPT ![p.req].got = <<o>>]

\* sqlite runs a statement once its connection is open; statements queued
\* behind a close() wait for the close
CanRun(p) == conns[p.conn] = "open" /\ ~p.late

\* the connection never opened or is closed: the statement cannot run
Dead(p) == conns[p.conn] \in {"failed", "closed"}

Rows(p) == tables[Storage(p.conn)]

HasTable(p) == Storage(p.conn) \in schema

Init ==
  /\ now = 0
  /\ dbPath \in {":memory:", "tasks.db"}
  /\ db = 0
  /\ conns = [c \in Conns |-> "unused"]
  /\ initP = [c \in Conns |-> "none"]
  /\ schema = {}
  /\ tables = [s \in Storages |-> {}]
  /\ pending = {}
  /\ last = Outcome("none", "", "ok")
  /\ calls = 0
  /\ batch = NoBatch
  /\ http = [r \in Requests |-> NoRequest]
  /\ entity = NoEntity
  /\ client = [f \in Fetches |-> NoCall]
  /\ app = NoApp

\* The clock advances
Tick ==
  /\ now < MaxTime
  /\ now' = now + 1
  /\ UNCHANGED <<dbPath, db, conns, initP, schema, tables, pending, last, calls,
               batch, http, entity, client, app>>

\* --------------------------------------------------------------- lifecycle
\* initialize(): this.db is assigned synchronously, the open is asynchronous
initialize ==
  /\ \E c \in Conns :
       /\ conns[c] = "unused"
       /\ \A j \in Conns : j < c => conns[j] # "unused"
       /\ db' = c
       /\ conns' = [conns EXCEPT ![c] = "opening"]
       /\ initP' = [initP EXCEPT ![c] = "pending"]
  /\ UNCHANGED <<now, dbPath, schema, tables, pending, last, calls, batch, http,
                      entity, client, app>>

\* callback of new sqlite3.Database with an error
OpenFailed(c) ==
  /\ conns[c] = "opening"
  /\ conns' = [conns EXCEPT ![c] = "failed"]
  /\ initP' = [initP EXCEPT ![c] = "rejected"]
  /\ last' = Outcome("initialize", "", StorageFailure)
  /\ UNCHANGED <<now, dbPath, db, schema, tables, pending, calls, batch, http,
                      entity, client, app>>

\* callback of new sqlite3.Database without error: createTable() on this.db
Opened(c) ==
  /\ conns[c] = "opening"
  /\ conns' = [conns EXCEPT ![c] = "open"]
  /\ IF db = 0
       THEN /\ initP' = [initP EXCEPT ![c] = "rejected"]
            /\ last' = Outcome("initialize", "", NotInitialized)
            /\ UNCHANGED pending
       ELSE /\ FreeSlots # {}
            /\ pending' = pending \cup
                 {Statement(NextSlot, "createTable", db, "", <<>>, NoUpdates, c)}
            /\ UNCHANGED <<initP, last, calls, batch, http, entity, client, app>>
  /\ UNCHANGED <<now, dbPath, db, schema, tables, calls, batch, http, entity, client, app>>

\* callback of CREATE TABLE IF NOT EXISTS
createTable(p) ==
  /\ p \in pending /\ p.op = "createTable" /\ CanRun(p)
  /\ schema' = schema \cup {Storage(p.conn)}
  /\ initP' = [initP EXCEPT ![p.init] = "resolved"]
  /\ pending' = pending \ {p}
  /\ last' = Outcome("initialize", "", "ok")
  /\ UNCHANGED <<now, dbPath, db, conns, tables, calls, batch, http, entity, client, app>>

\* close(): resolves at once when this.db is null, else hands close to sqlite
close ==
  IF db = 0
    THEN /\ last' = Outcome("close", "", "ok")
         /\ UNCHANGED <<now, dbPath, db, conns, initP, schema, tables, pending,
                      calls, batch, http, entity, client, app>>
    ELSE /\ FreeSlots # {}
         /\ calls < MaxCalls
         /\ calls' = calls + 1
         /\ pending' = pending \cup
              {Statement(NextSlot, "close", db, "", <<>>, NoUpdates, 0)}
         /\ batch' = BatchAfter("close", "")
         /\ UNCHANGED <<now, dbPath, db, conns, initP, schema, tables, last, http, entity, client, app>>

\* callback of this.db.close without error: sqlite closes after the statements
\* handed in before it, then this.db = null
closeCallback(p) ==
  /\ p \in pending /\ p.op = "close" /\ CanRun(p)
  /\ \A q \in pending : (q.conn = p.conn /\ ~q.late) => q = p
  /\ conns' = [conns EXCEPT ![p.conn] = "closed"]
  /\ db' = 0
  /\ tables' = IF dbPath = ":memory:"
                 THEN [tables EXCEPT ![Storage(p.conn)] = {}] ELSE tables
  /\ pending' = pending \ {p}
  /\ last' = Outcome("close", "", "ok")
  /\ UNCHANGED <<now, dbPath, initP, schema, calls, batch, http, entity, client, app>>

\* callback with an engine error of a statement whose connection is not open;
\* sqlite3 may also never call back on a connection that failed to open, which
\* is the behaviour in which this step is never taken
FailStatement(p) ==
  /\ p \in pending /\ Dead(p)
  /\ pending' = pending \ {p}
  /\ initP' = IF p.op = "createTable"
                THEN [initP EXCEPT ![p.init] = "rejected"] ELSE initP
  /\ last' = [Outcome(IF p.op = "createTable" THEN "initialize"
                      ELSE IF p.op \in {"select", "update"} THEN "updateTask"
                      ELSE p.op, p.id, StorageFailure) EXCEPT !.phase = p.phase]
  /\ http' = Deliver(p, last')
  /\ UNCHANGED <<now, dbPath, db, conns, schema, tables, calls, batch, entity, client, app>>

\* ------------------------------------------------------------ data inputs
\* entities handed to addTask: built by the constructor at the current clock
NewTasks ==
  {Task(id, TitleA, "", FALSE, <<now>>, now) : id \in Ids}
  \cup {Task(id, TitleB, "", FALSE, Null, now) : id \in Ids}

\* Partial<Task> objects handed to updateTask
UpdateInputs ==
  {[NoUpdates EXCEPT !.title = <<TitleB>>],
   [NoUpdates EXCEPT !.description = <<"d">>, !.completed = <<TRUE>>],
   [NoUpdates EXCEPT !.dueDate = <<Null>>],
   [NoUpdates EXCEPT !.dueDate = << <<0>> >>],
   [NoUpdates EXCEPT !.title = <<EmptyTitle>>],
   [NoUpdates EXCEPT !.title = <<BlankTitle>>, !.completed = <<TRUE>>],
   [NoUpdates EXCEPT !.title = <<LongTitle>>, !.description = <<"d">>]}

\* a ?? b for a field that is undefined when it is not supplied
Coalesce(supplied, existing) ==
  IF supplied = Undefined THEN existing ELSE supplied[1]

\* a ?? b for dueDate, which may also be supplied as null
CoalesceDate(supplied, existing) ==
  IF supplied = Undefined \/ supplied[1] = Null THEN existing ELSE supplied[1]

\* arguments updateTask passes to the Task constructor
MergedTitle(upd, existing) == Coalesce(upd.title, existing.title)

MergedDueDate(upd, existing) == CoalesceDate(upd.dueDate, existing.dueDate)

MergedTask(upd, existing) ==
  Task(existing.id, MergedTitle(upd, existing),
       Coalesce(upd.description, existing.description),
       Coalesce(upd.completed, existing.completed),
       MergedDueDate(upd, existing), existing.createdAt)

\* SET clause of the UPDATE statement applied to a row
UpdateRow(row, params) ==
  [row EXCEPT !.title = params.title, !.description = params.description,
              !.completed = params.completed, !.dueDate = params.dueDate]

\* ORDER BY createdAt ASC: the orders sqlite may return the rows in
Ascending(rows) ==
  {q \in [1..Cardinality(rows) -> rows] :
     /\ \A i, j \in 1..Cardinality(rows) : i # j => q[i] # q[j]
     /\ \A i, j \in 1..Cardinality(rows) :
          i < j => q[i].createdAt.iso <= q[j].createdAt.iso}

\* Faulty variant: the result keeps the ascending order of the SELECT
Reverse_Keep(q) == q

\* tasks.reverse()
Reverse(q) == [i \in 1..Len(q) |-> q[Len(q) + 1 - i]]

\* --------------------------------------------------------- data operations
\* Faulty variant: the guard is missing, this.db.run on null throws a TypeError
Rejected_NoGuard(op, id) ==
  /\ db = 0
  /\ last' = Outcome(op, id, "TypeError: Cannot read properties of null")
  /\ UNCHANGED <<now, dbPath, db, conns, initP, schema, tables, pending,
                      calls, batch, http, entity, client, app>>

\* the guard "if (!this.db) reject(Database not initialized)"
Rejected(op, id) ==
  /\ db = 0
  /\ last' = Outcome(op, id, NotInitialized)
  /\ UNCHANGED <<now, dbPath, db, conns, initP, schema, tables, pending,
                      calls, batch, http, entity, client, app>>

\* the promise resolved (getTaskById resolves with null for an unknown id)
Succeeded(o) == o.res \in {"ok", "null"}

\* the statement is handed to this.db, its callback runs later
Issued(op, id, row, upd) ==
  /\ db # 0
  /\ FreeSlots # {}
  /\ calls < MaxCalls
  /\ calls' = calls + 1
  /\ pending' = pending \cup {Statement(NextSlot, op, db, id, row, upd, 0)}
  /\ batch' = BatchAfter(op, id)
  /\ UNCHANGED <<now, dbPath, db, conns, initP, schema, tables, last, http, entity, client, app>>

\* the callback of statement p settles the promise with outcome o
Settled(p, o) ==
  /\ pending' = pending \ {p}
  /\ last' = [o EXCEPT !.phase = p.phase]
  /\ batch' = IF o.op = "addTask" /\ o.res = "ok"
                THEN [batch EXCEPT !.ok = @ + 1] ELSE batch
  /\ http' = Deliver(p, last')
  /\ UNCHANGED <<now, dbPath, db, conns, initP, schema, calls, entity, client, app>>

\* the callback reports an engine error because the table does not exist
NoTable(p) ==
  /\ p \in pending /\ p.op \notin {"createTable", "close"}
  /\ CanRun(p) /\ ~HasTable(p)
  /\ Settled(p, Outcome(IF p.op \in {"select", "update"} THEN "updateTask"
                        ELSE p.op, p.id, StorageFailure))
  /\ UNCHANGED tables

addTask(task) ==
  \/ Rejected("addTask", task.id)
  \/ Issued("addTask", task.id, <<TaskToRow(task)>>, NoUpdates)

\* Faulty variant: INSERT OR REPLACE, a second insert overwrites the row
addTaskCallback_Replace(p) ==
  /\ p \in pending /\ p.op = "addTask" /\ CanRun(p) /\ HasTable(p)
  /\ tables' = [tables EXCEPT ![Storage(p.conn)] =
                  {r \in @ : r.id # p.id} \cup {p.row[1]}]
  /\ Settled(p, Outcome("addTask", p.id, "ok"))

\* Faulty variant: an insert fails with SQLITE_BUSY while another insert is in flight
addTaskCallback_Busy(p) ==
  /\ p \in pending /\ p.op = "addTask" /\ CanRun(p) /\ HasTable(p)
  /\ IF \E q \in pending : q # p /\ q.op = "addTask"
       THEN /\ Settled(p, Outcome("addTask", p.id, StorageFailure))
            /\ UNCHANGED tables
       ELSE IF \E r \in Rows(p) : r.id = p.id
         THEN /\ Settled(p, Outcome("addTask", p.id, DuplicateId))
              /\ UNCHANGED tables
         ELSE /\ tables' = [tables EXCEPT ![Storage(p.conn)] = @ \cup {p.row[1]}]
              /\ Settled(p, Outcome("addTask", p.id, "ok"))

\* INSERT: the primary key rejects a second row with the same id
addTaskCallback(p) ==
  /\ p \in pending /\ p.op = "addTask" /\ CanRun(p) /\ HasTable(p)
  /\ IF \E r \in Rows(p) : r.id = p.id
       THEN /\ Settled(p, Outcome("addTask", p.id, DuplicateId))
            /\ UNCHANGED tables
       ELSE /\ tables' = [tables EXCEPT ![Storage(p.conn)] = @ \cup {p.row[1]}]
            /\ Settled(p, Outcome("addTask", p.id, "ok"))

getTasks ==
  \/ Rejected("getTasks", "")
  \/ Issued("getTasks", "", <<>>, NoUpdates)

getTasksCallback(p) ==
  /\ p \in pending /\ p.op = "getTasks" /\ CanRun(p) /\ HasTable(p)
  /\ IF \E r \in Rows(p) : rowToTaskError(r, now) # NoError
       THEN Settled(p, Outcome("getTasks", "", ParseFailure))
       ELSE \E q \in Ascending(Rows(p)) :
              Settled(p, [Outcome("getTasks", "", "ok") EXCEPT
                            !.tasks = Reverse([i \in 1..Len(q) |-> rowToTask(q[i])])])
  /\ UNCHANGED tables

getTaskById(id) ==
  \/ Rejected("getTaskById", id)
  \/ Issued("getTaskById", id, <<>>, NoUpdates)

getTaskByIdCallback(p) ==
  /\ p \in pending /\ p.op = "getTaskById" /\ CanRun(p) /\ HasTable(p)
  /\ IF ~\E r \in Rows(p) : r.id = p.id
       THEN Settled(p, Outcome("getTaskById", p.id, "null"))
       ELSE \E r \in Rows(p) :
              /\ r.id = p.id
              /\ IF rowToTaskError(r, now) # NoError
                   THEN Settled(p, Outcome("getTaskById", p.id, ParseFailure))
                   ELSE Settled(p, [Outcome("getTaskById", p.id, "ok") EXCEPT
                                      !.task = <<rowToTask(r)>>])
  /\ UNCHANGED tables

\* updateTask starts with getTaskById(id): guard, then SELECT
updateTask(id, upd) ==
  \/ Rejected("updateTask", id)
  \/ Issued("select", id, <<>>, upd)

\* callback of the SELECT inside updateTask: merge, validate, hand in UPDATE
\* (the continuation after "await this.getTaskById(id)" runs in the same turn
\* of the event loop as the callback, so no other callback comes in between)
selectCallback(p) ==
  /\ p \in pending /\ p.op = "select" /\ CanRun(p) /\ HasTable(p)
  /\ UNCHANGED tables
  /\ IF ~\E r \in Rows(p) : r.id = p.id
       THEN Settled(p, Outcome("updateTask", p.id, NotFound))
       ELSE \E r \in Rows(p) :
         /\ r.id = p.id
         /\ IF rowToTaskError(r, now) # NoError
              THEN Settled(p, Outcome("updateTask", p.id, ParseFailure))
            ELSE IF TaskError(p.id, MergedTitle(p.upd, rowToTask(r)),
                              MergedDueDate(p.upd, rowToTask(r)), now) # NoError
              THEN Settled(p, Outcome("updateTask", p.id,
                     TaskError(p.id, MergedTitle(p.upd, rowToTask(r)),
                               MergedDueDate(p.upd, rowToTask(r)), now)))
            ELSE IF db = 0
              THEN Settled(p, Outcome("updateTask", p.id, NotInitialized))
            ELSE /\ pending' = (pending \ {p}) \cup
                      {[Statement(p.k, "update", db, p.id,
                                  <<TaskToRow(MergedTask(p.upd, rowToTask(r)))>>,
                                  p.upd, 0) EXCEPT !.phase = p.phase, !.seen = <<r>>,
                                            !.req = p.req]}
                 /\ UNCHANGED <<now, dbPath, db, conns, initP, schema, last, calls,
                                batch, http, entity, client, app>>

\* the row with the id of statement p, none when no row has it
Replaced(p) ==
  IF \E r \in Rows(p) : r.id = p.id
    THEN <<CHOOSE r \in Rows(p) : r.id = p.id>> ELSE <<>>

\* Faulty variant: the UPDATE sets only the columns of the supplied fields
updateCallback_Supplied(p) ==
  /\ p \in pending /\ p.op = "update" /\ CanRun(p) /\ HasTable(p)
  /\ tables' = [tables EXCEPT ![Storage(p.conn)] =
                  {IF r.id = p.id
                     THEN UpdateRow(r,
                            [title |-> IF p.upd.title = Undefined
                                         THEN r.title ELSE p.row[1].title,
                             description |-> IF p.upd.description = Undefined
                                               THEN r.description
                                               ELSE p.row[1].description,
                             completed |-> IF p.upd.completed = Undefined
                                             THEN r.completed
                                             ELSE p.row[1].completed,
                             dueDate |-> IF p.upd.dueDate = Undefined
                                           THEN r.dueDate ELSE p.row[1].dueDate])
                     ELSE r : r \in @}]
  /\ Settled(p, [Outcome("updateTask", p.id, "ok") EXCEPT
                   !.seen = p.seen, !.over = Replaced(p)])

\* callback of the UPDATE statement: the error is null also when no row
\* matched the WHERE clause
updateCallback(p) ==
  /\ p \in pending /\ p.op = "update" /\ CanRun(p) /\ HasTable(p)
  /\ tables' = [tables EXCEPT ![Storage(p.conn)] =
                  {IF r.id = p.id THEN UpdateRow(r, p.row[1]) ELSE r : r \in @}]
  /\ Settled(p, [Outcome("updateTask", p.id, "ok") EXCEPT
                   !.seen = p.seen, !.over = Replaced(p)])

deleteTask(id) ==
  \/ Rejected("deleteTask", id)
  \/ Issued("deleteTask", id, <<>>, NoUpdates)

\* Faulty variant: deleting an id that matches no row is reported as not found
deleteTaskCallback_Strict(p) ==
  /\ p \in pending /\ p.op = "deleteTask" /\ CanRun(p) /\ HasTable(p)
  /\ tables' = [tables EXCEPT ![Storage(p.conn)] = {r \in @ : r.id # p.id}]
  /\ Settled(p, Outcome("deleteTask", p.id,
                        IF \E r \in Rows(p) : r.id = p.id
                          THEN "ok" ELSE NotFound))

deleteTaskCallback(p) ==
  /\ p \in pending /\ p.op = "deleteTask" /\ CanRun(p) /\ HasTable(p)
  /\ tables' = [tables EXCEPT ![Storage(p.conn)] = {r \in @ : r.id # p.id}]
  /\ Settled(p, Outcome("deleteTask", p.id, "ok"))

getTaskCount ==
  \/ Rejected("getTaskCount", "")
  \/ Issued("getTaskCount", "", <<>>, NoUpdates)

getTaskCountCallback(p) ==
  /\ p \in pending /\ p.op = "getTaskCount" /\ CanRun(p) /\ HasTable(p)
  /\ Settled(p, [Outcome("getTaskCount", "", "ok") EXCEPT
                   !.n = Cardinality(Rows(p))])
  /\ UNCHANGED tables

getCompletedCount ==
  \/ Rejected("getCompletedCount", "")
  \/ Issued("getCompletedCount", "", <<>>, NoUpdates)

\* Faulty variant: the WHERE clause is missing, every row is counted
getCompletedCountCallback_All(p) ==
  /\ p \in pending /\ p.op = "getCompletedCount" /\ CanRun(p) /\ HasTable(p)
  /\ Settled(p, [Outcome("getCompletedCount", "", "ok") EXCEPT
                   !.n = Cardinality(Rows(p))])
  /\ UNCHANGED tables

getCompletedCountCallback(p) ==
  /\ p \in pending /\ p.op = "getCompletedCount" /\ CanRun(p) /\ HasTable(p)
  /\ Settled(p, [Outcome("getCompletedCount", "", "ok") EXCEPT
                   !.n = Cardinality({r \in Rows(p) : r.completed = 1})])
  /\ UNCHANGED tables

clearAll ==
  \/ Rejected("clearAll", "")
  \/ Issued("clearAll", "", <<>>, NoUpdates)

clearAllCallback(p) ==
  /\ p \in pending /\ p.op = "clearAll" /\ CanRun(p) /\ HasTable(p)
  /\ tables' = [tables EXCEPT ![Storage(p.conn)] = {}]
  /\ Settled(p, Outcome("clearAll", "", "ok"))

\* -------------------------------------------------------------- HTTP routes
\* The text of a date in a JSON body; new Date(text) is an Invalid Date when
\* the text is not a date
InvalidText == [iso |-> 0 - 1]

IsNaN(d) == d < 0

\* error.message.includes(phrase), on the messages the entity and the store
\* produce; the parse failure of the store quotes the entity's message
Includes(message, phrase) ==
  CASE phrase = "cannot be empty" ->
         message \in {"Task title cannot be empty", "Task ID cannot be empty"}
    [] phrase = "cannot exceed" ->
         message = "Task title cannot exceed 255 characters"
    [] phrase = "in the past" ->
         message \in {"Due date cannot be in the past", ParseFailure}
    [] phrase = "not found" -> message = NotFound
    [] OTHER -> FALSE

\* catch block of POST /tasks: the status for a thrown error
PostErrorStatus(message) ==
  IF Includes(message, "cannot be empty") THEN 400
  ELSE IF Includes(message, "cannot exceed") THEN 400
  ELSE IF Includes(message, "in the past") THEN 400
  ELSE 500

\* catch block of PATCH /tasks/:id: the status for a thrown error
PatchErrorStatus(message) ==
  IF Includes(message, "not found") THEN 404 ELSE 500

\* the catch block of the statistics route answers 500 whatever the error
ErrorStatus(route, message) ==
  IF route = "POST" THEN PostErrorStatus(message)
  ELSE IF route = "PATCH" THEN PatchErrorStatus(message)
  ELSE 500

\* res.status(status).json({error}) ends the handler; the slot keeps the
\* route, the id and the response
Response(h, status, error) ==
  [NoRequest EXCEPT !.route = h.route, !.id = h.id, !.stage = "done",
                    !.status = status, !.error = error]

Respond(r, h, status, error) ==
  /\ http' = [http EXCEPT ![r] = Response(h, status, error)]
  /\ UNCHANGED <<now, dbPath, db, conns, initP, schema, tables, pending, last,
                 calls, batch, entity, client, app>>

\* "await dbService.op(...)" in a handler: the guard of the store rejects at
\* once and the catch block answers, else the statement is handed to sqlite
\* and the handler waits for its promise
Await(r, h, stage, op, id, row, upd) ==
  IF db = 0
    THEN /\ http' = [http EXCEPT ![r] =
                       Response(h, ErrorStatus(h.route, NotInitialized),
                                NotInitialized)]
         /\ last' = Outcome(IF op = "select" THEN "updateTask" ELSE op, id,
                            NotInitialized)
         /\ UNCHANGED <<now, dbPath, db, conns, initP, schema, tables, pending,
                        calls, batch, entity, client, app>>
    ELSE /\ FreeSlots # {}
         /\ calls' = calls + 1
         /\ pending' = pending \cup
              {[Statement(NextSlot, op, db, id, row, upd, 0) EXCEPT !.req = r]}
         /\ batch' = BatchAfter(op, id)
         /\ http' = [http EXCEPT ![r] = [h EXCEPT !.stage = stage, !.got = <<>>]]
         /\ UNCHANGED <<now, dbPath, db, conns, initP, schema, tables, last, entity, client, app>>

\* the awaited promise rejected: the catch block answers
Caught(r) ==
  Respond(r, http[r], ErrorStatus(http[r].route, http[r].got[1].res),
          http[r].got[1].res)

\* dueDate of a body as the Date | null the handlers build from it
BodyDueDate(body) ==
  IF body.dueDate = Undefined \/ body.dueDate[1] = Null
    THEN Null ELSE <<parseDate(body.dueDate[1][1])>>

\* a request for route with req.params.id = id and req.body = body that has
\* reached the server
Arrived(route, id, body) ==
  [NoRequest EXCEPT !.route = route, !.id = id, !.body = body,
                    !.stage = "arrived"]

\* some client sends a request; MaxCalls bounds the requests that are sent
Request(r, route, id, body) ==
  /\ http[r].stage \in {"idle", "done"}
  /\ calls < MaxCalls
  /\ http' = [http EXCEPT ![r] = Arrived(route, id, body)]
  /\ UNCHANGED <<now, dbPath, db, conns, initP, schema, tables, pending, last,
                 calls, batch, entity, client, app>>

\* POST /tasks up to "await dbService.addTask(task)"; id is the generated id
PostTask(r, id) ==
  /\ http[r].stage = "arrived" /\ http[r].route = "POST"
  /\ LET body == http[r].body
         h == [http[r] EXCEPT !.id = id]
         description == IF body.description = Undefined
                          THEN "" ELSE body.description[1]
     IN IF body.title = Undefined \/ Length(Trim(body.title[1])) = 0
          THEN Respond(r, h, 400, "Task title is required")
        ELSE IF BodyDueDate(body) # Null /\ IsNaN(BodyDueDate(body)[1])
          THEN Respond(r, h, 400, "Invalid due date format")
        ELSE IF TaskError(id, body.title[1], BodyDueDate(body), now) # NoError
          THEN Respond(r, h,
                 PostErrorStatus(TaskError(id, body.title[1], BodyDueDate(body), now)),
                 TaskError(id, body.title[1], BodyDueDate(body), now))
        ELSE Await(r, h, "add", "addTask", id,
                   <<TaskToRow(Task(id, body.title[1], description, FALSE,
                                    BodyDueDate(body), now))>>, NoUpdates)

\* POST /tasks after addTask settled
PostAfterAdd(r) ==
  /\ http[r].route = "POST" /\ http[r].stage = "add" /\ http[r].got # <<>>
  /\ IF http[r].got[1].res = "ok"
       THEN Respond(r, http[r], 201, NoError)
       ELSE Caught(r)

\* PATCH /tasks/:id up to "await dbService.getTaskById(id)"
PatchTask(r) ==
  /\ http[r].stage = "arrived" /\ http[r].route = "PATCH"
  /\ LET h == http[r]
     IN IF validateId(h.id) # NoError
          THEN Respond(r, h, 400, "Task ID is required")
          ELSE Await(r, h, "get", "getTaskById", h.id, <<>>, NoUpdates)

\* the Partial<Task> the PATCH handler builds from the body
PatchUpdates(body) ==
  [title |-> body.title, description |-> body.description,
   completed |-> body.completed,
   dueDate |-> IF body.dueDate = Undefined THEN Undefined
               ELSE <<BodyDueDate(body)>>]

\* PATCH /tasks/:id after getTaskById settled, up to "await updateTask"
PatchAfterGet(r) ==
  /\ http[r].route = "PATCH" /\ http[r].stage = "get" /\ http[r].got # <<>>
  /\ LET h == http[r]
         body == h.body
     IN IF ~Succeeded(h.got[1]) THEN Caught(r)
        ELSE IF h.got[1].res = "null" THEN Respond(r, h, 404, "Task not found")
        ELSE IF body.title # Undefined /\ Length(Trim(body.title[1])) = 0
          THEN Respond(r, h, 400, "Task title cannot be empty")
        ELSE IF BodyDueDate(body) # Null /\ IsNaN(BodyDueDate(body)[1])
          THEN Respond(r, h, 400, "Invalid due date format")
        ELSE Await(r, [h EXCEPT !.upd = PatchUpdates(body)], "update",
                   "select", h.id, <<>>, PatchUpdates(body))

\* PATCH /tasks/:id after updateTask settled, up to the second getTaskById
PatchAfterUpdate(r) ==
  /\ http[r].route = "PATCH" /\ http[r].stage = "update" /\ http[r].got # <<>>
  /\ IF ~Succeeded(http[r].got[1]) THEN Caught(r)
     ELSE Await(r, http[r], "reget", "getTaskById", http[r].id, <<>>, NoUpdates)

\* PATCH /tasks/:id after the second getTaskById settled
PatchAfterReget(r) ==
  /\ http[r].route = "PATCH" /\ http[r].stage = "reget" /\ http[r].got # <<>>
  /\ IF ~Succeeded(http[r].got[1]) THEN Caught(r)
     ELSE Respond(r, http[r], 200, NoError)

\* GET /tasks/stats/summary up to "await dbService.getTaskCount()"
StatsSummary(r) ==
  /\ http[r].stage = "arrived" /\ http[r].route = "STATS"
  /\ Await(r, http[r], "total", "getTaskCount", "", <<>>, NoUpdates)

\* after getTaskCount settled, up to "await dbService.getCompletedCount()"
StatsAfterTotal(r) ==
  /\ http[r].route = "STATS" /\ http[r].stage = "total" /\ http[r].got # <<>>
  /\ IF ~Succeeded(http[r].got[1]) THEN Caught(r)
     ELSE Await(r, [http[r] EXCEPT !.stats.total = http[r].got[1].n],
                "completed", "getCompletedCount", "", <<>>, NoUpdates)

\* after getCompletedCount settled: pending = total - completed, answer 200
StatsAfterCompleted(r) ==
  /\ http[r].route = "STATS" /\ http[r].stage = "completed"
  /\ http[r].got # <<>>
  /\ IF ~Succeeded(http[r].got[1]) THEN Caught(r)
     ELSE LET total == http[r].stats.total
              completed == http[r].got[1].n
          IN /\ http' = [http EXCEPT ![r] =
                          [Response(http[r], 200, NoError) EXCEPT
                             !.stats = [total |-> total, completed |-> completed,
                                        pending |-> total - completed]]]
             /\ UNCHANGED <<now, dbPath, db, conns, initP, schema, tables,
                            pending, last, calls, batch, entity, client, app>>

\* toJSON as res.json sends it: JSON.stringify writes a Date as its ISO text
toJSON(task) ==
  [id |-> task.id, title |-> task.title, description |-> task.description,
   completed |-> task.completed,
   createdAt |-> toISOString(task.createdAt),
   dueDate |-> IF task.dueDate # Null
                 THEN <<toISOString(task.dueDate[1])>> ELSE Null]

\* GET /tasks up to "await dbService.getTasks()"
GetTasks(r) ==
  /\ http[r].stage = "arrived" /\ http[r].route = "GET"
  /\ Await(r, http[r], "list", "getTasks", "", <<>>, NoUpdates)

\* GET /tasks after getTasks settled: answer 200 with tasks.map(toJSON)
GetAfterGetTasks(r) ==
  /\ http[r].route = "GET" /\ http[r].stage = "list" /\ http[r].got # <<>>
  /\ IF ~Succeeded(http[r].got[1]) THEN Caught(r)
     ELSE LET tasks == http[r].got[1].tasks
          IN /\ http' = [http EXCEPT ![r] =
                          [Response(http[r], 200, NoError) EXCEPT
                             !.tasks = [i \in 1..Len(tasks) |-> toJSON(tasks[i])]]]
             /\ UNCHANGED <<now, dbPath, db, conns, initP, schema, tables,
                            pending, last, calls, batch, entity, client, app>>

\* DELETE /tasks/:id up to "await dbService.getTaskById(id)"
DeleteTask(r) ==
  /\ http[r].stage = "arrived" /\ http[r].route = "DELETE"
  /\ LET h == http[r]
     IN IF validateId(h.id) # NoError
          THEN Respond(r, h, 400, "Task ID is required")
          ELSE Await(r, h, "get", "getTaskById", h.id, <<>>, NoUpdates)

\* DELETE /tasks/:id after getTaskById settled, up to "await deleteTask(id)"
DeleteAfterGet(r) ==
  /\ http[r].route = "DELETE" /\ http[r].stage = "get" /\ http[r].got # <<>>
  /\ LET h == http[r]
     IN IF ~Succeeded(h.got[1]) THEN Caught(r)
        ELSE IF h.got[1].res = "null" THEN Respond(r, h, 404, "Task not found")
        ELSE Await(r, h, "delete", "deleteTask", h.id, <<>>, NoUpdates)

\* DELETE /tasks/:id after deleteTask settled
DeleteAfterDelete(r) ==
  /\ http[r].route = "DELETE" /\ http[r].stage = "delete"
  /\ http[r].got # <<>>
  /\ IF ~Succeeded(http[r].got[1]) THEN Caught(r)
     ELSE Respond(r, http[r], 200, NoError)

\* --------------------------------------------------------------- TaskClient
\* the route the fetch of a method goes to
Route(op) ==
  CASE op = "fetchTasks" -> "GET"
    [] op = "createTask" -> "POST"
    [] op = "updateTask" -> "PATCH"
    [] op = "deleteTask" -> "DELETE"
    [] OTHER -> "STATS"

\* response.ok
Ok(status) == status >= 200 /\ status < 300

\* `HTTP ${response.status}: ${response.statusText}`
HttpError(status) ==
  IF status = 500 THEN "HTTP 500: Internal Server Error"
  ELSE IF status = 404 THEN "HTTP 404: Not Found"
  ELSE "HTTP 400: Bad Request"

\* fetch rejects when the request or its response is lost
FailedToFetch == "Failed to fetch"

\* the error fn throws when the response h has come, NoError if it returns;
\* a 2xx response of these routes always has success and data
Thrown(op, h) ==
  IF op \in {"updateTask", "deleteTask"} /\ h.status = 404
    THEN "Task not found"
  ELSE IF Ok(h.status) THEN NoError
  ELSE IF op \in {"fetchTasks", "fetchStats"} THEN HttpError(h.status)
  ELSE h.error

\* the body createTask sends: title and description, dueDate when it is given
CreateBody(title, description, dueDate) ==
  [NoBody EXCEPT !.title = <<title>>, !.description = <<description>>,
                 !.dueDate = IF dueDate # Null
                               THEN << <<toISOString(dueDate[1])>> >>
                               ELSE Undefined]

\* the body updateTask sends: the fields of updates that are not undefined
UpdateBody(updates) ==
  [title |-> updates.title, description |-> updates.description,
   completed |-> updates.completed,
   dueDate |-> IF updates.dueDate = Undefined THEN Undefined
               ELSE IF updates.dueDate[1] # Null
                 THEN << <<toISOString(updates.dueDate[1][1])>> >>
                 ELSE <<Null>>]

\* a method is called: retryRequest(fn) starts with maxRetries retries
Calling(op, id, body) ==
  [NoCall EXCEPT !.op = op, !.id = id, !.body = body, !.retries = MaxRetries,
                 !.stage = "ready",
                 !.base = Cardinality(tables[Storage(db)])]

\* a faulty variant: one more retry than maxRetries
retryRequest_Again(c, error) ==
  IF c.retries >= 0
    THEN [c EXCEPT !.stage = "ready", !.retries = @ - 1]
    ELSE [c EXCEPT !.stage = "rejected", !.error = error]

\* the catch block of retryRequest: fn threw error; after retryDelay fn is
\* called again with one retry less, without retries left the call rejects
retryRequest(c, error) ==
  IF c.retries > 0
    THEN [c EXCEPT !.stage = "ready", !.retries = @ - 1]
    ELSE [c EXCEPT !.stage = "rejected", !.error = error]

\* fn of call f throws error
Throw(f, c, error) ==
  client' = [client EXCEPT ![f] =
               [retryRequest(c, error) EXCEPT !.slot = 0, !.failed = @ + 1,
                                              !.thrown = error]]

Idle(c) == c.stage \in {"idle", "resolved", "rejected"}

\* the call slots the running handlers of the app await
Held ==
  UNION {{app.handlers[k].fetch, app.handlers[k].tasks, app.handlers[k].stats} :
           k \in Handlers}

FreeFetches == {f \in Fetches : Idle(client[f]) /\ f \notin Held}

Lowest(S) == CHOOSE f \in S : \A g \in S : f <= g

NextFetch == Lowest(FreeFetches)

\* a caller that awaits each call: taskClient.createTask(title, description,
\* dueDate); MaxCalls bounds the calls that are made
createTask(title, description, dueDate) ==
  /\ \A f \in Fetches : Idle(client[f])
  /\ calls < MaxCalls
  /\ client' = [client EXCEPT ![NextFetch] =
                  Calling("createTask", "",
                          CreateBody(title, description, dueDate))]
  /\ UNCHANGED <<now, dbPath, db, conns, initP, schema, tables, pending, last,
                 calls, batch, http, entity, app>>

\* taskClient.updateTask(id, updates)
TaskClient_updateTask(id, updates) ==
  /\ \A f \in Fetches : Idle(client[f])
  /\ calls < MaxCalls
  /\ client' = [client EXCEPT ![NextFetch] =
                  Calling("updateTask", id, UpdateBody(updates))]
  /\ UNCHANGED <<now, dbPath, db, conns, initP, schema, tables, pending, last,
                 calls, batch, http, entity, app>>

\* fn is called and its fetch sends the request, which arrives at the server
\* in a slot no response is waiting in
Fetch(f, r) ==
  /\ client[f].stage = "ready"
  /\ http[r].stage \in {"idle", "done"}
  /\ \A g \in Fetches : client[g].stage = "sent" => client[g].slot # r
  /\ client' = [client EXCEPT ![f].stage = "sent", ![f].slot = r,
                              ![f].attempts = @ + 1]
  /\ http' = [http EXCEPT ![r] =
               Arrived(Route(client[f].op), client[f].id, client[f].body)]
  /\ UNCHANGED <<now, dbPath, db, conns, initP, schema, tables, pending, last,
                 calls, batch, entity, app>>

\* fn is called and its fetch rejects: the request never arrives
FetchFails(f) ==
  /\ client[f].stage = "ready"
  /\ Throw(f, [client[f] EXCEPT !.attempts = @ + 1], FailedToFetch)
  /\ UNCHANGED <<now, dbPath, db, conns, initP, schema, tables, pending, last,
                 calls, batch, http, entity, app>>

\* the server has answered but the response is lost on its way: fetch rejects
Lose(f) ==
  /\ client[f].stage = "sent"
  /\ http[client[f].slot].stage = "done"
  /\ Throw(f, client[f], FailedToFetch)
  /\ UNCHANGED <<now, dbPath, db, conns, initP, schema, tables, pending, last,
                 calls, batch, http, entity, app>>

\* the response arrives: fn throws on an error status, else it returns and
\* the call resolves
Receive(f) ==
  /\ client[f].stage = "sent"
  /\ http[client[f].slot].stage = "done"
  /\ LET c == client[f]
         h == http[c.slot]
     IN IF Thrown(c.op, h) # NoError
          THEN Throw(f, c, Thrown(c.op, h))
          ELSE client' = [client EXCEPT ![f] =
                            [c EXCEPT !.stage = "resolved", !.slot = 0,
                                      !.tasks = h.tasks]]
  /\ UNCHANGED <<now, dbPath, db, conns, initP, schema, tables, pending, last,
                 calls, batch, http, entity, app>>

\* ----------------------------------------------------------- TaskManagerApp
FreeHandlers == {k \in Handlers \ {0} : app.handlers[k].stage = "idle"}

\* the handler has returned; the finally block of an event handler enables
\* the form again
EndHandler(k, a) ==
  [a EXCEPT !.handlers[k].stage = "done", !.handlers[k].fetch = 0,
            !.handlers[k].tasks = 0, !.handlers[k].stats = 0,
            !.formEnabled = IF k = 0 THEN @ ELSE TRUE]

\* loadTasks called by handler k in app state a with client calls cl, up to
\* its await: it returns at once when isLoading is set, else it sets
\* isLoading, shows the loading state and calls fetchTasks and fetchStats
\* (in call slots f1 and f2); the result is the app and the client calls
loadTasks(k, a, cl, f1, f2) ==
  IF a.isLoading
    THEN <<EndHandler(k, a), cl>>
    ELSE <<[a EXCEPT !.isLoading = TRUE, !.handlers[k].stage = "loading",
                     !.handlers[k].tasks = f1, !.handlers[k].stats = f2],
           [cl EXCEPT ![f1] = Calling("fetchTasks", "", NoBody),
                      ![f2] = Calling("fetchStats", "", NoBody)]>>

\* initialize() of the app: healthCheck, then attachEventListeners and
\* loadTasks
TaskManagerApp_initialize(healthy) ==
  /\ app.handlers[0].stage = "idle"
  /\ Cardinality(FreeFetches) >= 2
  /\ IF ~healthy
       THEN /\ app' = EndHandler(0, [app EXCEPT !.handlers[0].op = "initialize"])
            /\ UNCHANGED client
       ELSE LET a == [app EXCEPT !.listening = TRUE,
                                 !.handlers[0].op = "initialize"]
                res == loadTasks(0, a, client, NextFetch,
                                 Lowest(FreeFetches \ {NextFetch}))
            IN app' = res[1] /\ client' = res[2]
  /\ UNCHANGED <<now, dbPath, db, conns, initP, schema, tables, pending, last,
                 calls, batch, http, entity>>

\* the submit listener of the enabled form: handleAddTask(data) up to
\* "await this.taskClient.createTask(...)"
handleAddTask(title, description) ==
  /\ app.listening /\ app.formEnabled
  /\ FreeHandlers # {} /\ FreeFetches # {}
  /\ LET k == Lowest(FreeHandlers)
         a == [app EXCEPT !.handlers[k].op = "handleAddTask"]
     IN IF Length(title) = 0 \/ Length(Trim(title)) = 0
          THEN /\ app' = [a EXCEPT !.handlers[k].stage = "done"]
               /\ UNCHANGED client
          ELSE /\ app' = [a EXCEPT !.formEnabled = FALSE,
                                   !.handlers[k].stage = "mutating",
                                   !.handlers[k].fetch = NextFetch]
               /\ client' = [client EXCEPT ![NextFetch] =
                               Calling("createTask", "",
                                       CreateBody(title, description, Null))]
  /\ UNCHANGED <<now, dbPath, db, conns, initP, schema, tables, pending, last,
                 calls, batch, http, entity>>

\* the task list shows the element of task id: renderTasks was last called
\* with a list that has it, and showLoading has not replaced the list since
\* (the list shows the loading state exactly while isLoading is set)
Shown(id) ==
  /\ ~app.isLoading
  /\ app.rendered # <<>>
  /\ \E i \in 1..Len(app.rendered[1]) : app.rendered[1][i].id = id

\* an event of a task element starts handler op, which calls the client
\* method up to its await
HandleEvent(op, id, call) ==
  /\ app.listening /\ Shown(id)
  /\ FreeHandlers # {} /\ FreeFetches # {}
  /\ LET k == Lowest(FreeHandlers)
     IN app' = [app EXCEPT !.formEnabled = FALSE,
                           !.handlers[k].op = op, !.handlers[k].id = id,
                           !.handlers[k].stage = "mutating",
                           !.handlers[k].fetch = NextFetch]
  /\ client' = [client EXCEPT ![NextFetch] = call]
  /\ UNCHANGED <<now, dbPath, db, conns, initP, schema, tables, pending, last,
                 calls, batch, http, entity>>

\* the checkbox of a shown task changes: handleToggleTask(id, completed) up
\* to "await this.taskClient.updateTask(id, { completed })"
handleToggleTask(id, completed) ==
  HandleEvent("handleToggleTask", id,
              Calling("updateTask", id,
                      UpdateBody([NoUpdates EXCEPT !.completed = <<completed>>])))

\* the delete button of a shown task is clicked and confirmed:
\* handleDeleteTask(id) up to "await this.taskClient.deleteTask(id)"
handleDeleteTask(id) ==
  HandleEvent("handleDeleteTask", id, Calling("deleteTask", id, NoBody))

\* the client call of an event handler has settled: on a rejection the catch
\* block shows the error, else the handler calls loadTasks; it ends when
\* loadTasks returns at once
HandlerAfterCall(k) ==
  /\ k # 0 /\ app.handlers[k].stage = "mutating"
  /\ Idle(client[app.handlers[k].fetch])
  /\ LET f == app.handlers[k].fetch
         cl == [client EXCEPT ![f] = NoCall]
         free == FreeFetches \cup {f}
     IN IF client[f].stage = "rejected"
          THEN app' = EndHandler(k, app) /\ client' = cl
          ELSE /\ app.isLoading \/ Cardinality(free) >= 2
               /\ LET a == [app EXCEPT !.handlers[k].ok = TRUE,
                                       !.handlers[k].fetch = 0]
                      res == loadTasks(k, a, cl, Lowest(free),
                                       Lowest(free \ {Lowest(free)}))
                  IN app' = res[1] /\ client' = res[2]
  /\ UNCHANGED <<now, dbPath, db, conns, initP, schema, tables, pending, last,
                 calls, batch, http, entity>>

\* Promise.all of loadTasks has settled: both calls resolved and the tasks
\* are rendered, or one rejected and the catch block renders []; finally
\* isLoading is reset and the handler that awaited loadTasks ends
LoadTasksAfterAll(k) ==
  /\ app.handlers[k].stage = "loading"
  /\ LET t == app.handlers[k].tasks
         s == app.handlers[k].stats
         all == client[t].stage = "resolved" /\ client[s].stage = "resolved"
     IN /\ all \/ client[t].stage = "rejected" \/ client[s].stage = "rejected"
        /\ app' = EndHandler(k, [app EXCEPT
                     !.isLoading = FALSE,
                     !.rendered = IF all THEN <<client[t].tasks>> ELSE << <<>> >>])
        /\ client' = [f \in Fetches |->
                        IF f \in {t, s} /\ Idle(client[f])
                          THEN NoCall ELSE client[f]]
  /\ UNCHANGED <<now, dbPath, db, conns, initP, schema, tables, pending, last,
                 calls, batch, http, entity>>

\* ------------------------------------------------------ Task entity methods
Store == <<dbPath, db, conns, initP, schema, tables, pending, last, calls,
           batch, http>>

\* the call op(args) returned (err = NoError) or threw err, leaving obj
Called(obj, op, args, err) ==
  /\ entity' = [entity EXCEPT !.obj = obj, !.op = op, !.args = args,
                              !.err = err, !.ret = FALSE]
  /\ UNCHANGED <<now, Store, client, app>>

\* new Task(id, title, description, completed, dueDate): createdAt = new Date()
construct(id, title, description, completed, dueDate) ==
  LET args == [id |-> id, title |-> title, dueDate |-> dueDate]
  IN IF TaskError(id, title, dueDate, now) # NoError
       THEN Called(entity.obj, "construct", args,
                   TaskError(id, title, dueDate, now))
       ELSE Called(<<Task(id, title, description, completed, dueDate, now)>>,
                   "construct", args, NoError)

\* Faulty variant: complete() rebuilds the task and stamps it anew
complete_Restamp ==
  /\ entity.obj # <<>>
  /\ Called(<<[entity.obj[1] EXCEPT !.completed = TRUE, !.createdAt = now]>>,
            "complete", NoArgs, NoError)

complete ==
  /\ entity.obj # <<>>
  /\ Called(<<[entity.obj[1] EXCEPT !.completed = TRUE]>>, "complete", NoArgs,
            NoError)

reopen ==
  /\ entity.obj # <<>>
  /\ Called(<<[entity.obj[1] EXCEPT !.completed = FALSE]>>, "reopen", NoArgs,
            NoError)

\* Faulty variant: the title is assigned before it is validated
updateTitle_AssignFirst(title) ==
  /\ entity.obj # <<>>
  /\ Called(<<[entity.obj[1] EXCEPT !.title = title]>>, "updateTitle",
            [NoArgs EXCEPT !.title = title], validateTitle(title))

\* this.validateTitle(title) throws, or this.title = title
updateTitle(title) ==
  /\ entity.obj # <<>>
  /\ IF validateTitle(title) # NoError
       THEN Called(entity.obj, "updateTitle", [NoArgs EXCEPT !.title = title],
                   validateTitle(title))
       ELSE Called(<<[entity.obj[1] EXCEPT !.title = title]>>, "updateTitle",
                   [NoArgs EXCEPT !.title = title], NoError)

updateDescription(description) ==
  /\ entity.obj # <<>>
  /\ Called(<<[entity.obj[1] EXCEPT !.description = description]>>,
            "updateDescription", NoArgs, NoError)

setDueDate(date) ==
  /\ entity.obj # <<>>
  /\ IF validateDueDate(date, now) # NoError
       THEN Called(entity.obj, "setDueDate", [NoArgs EXCEPT !.dueDate = date],
                   validateDueDate(date, now))
       ELSE Called(<<[entity.obj[1] EXCEPT !.dueDate = date]>>, "setDueDate",
                   [NoArgs EXCEPT !.dueDate = date], NoError)

\* Faulty variant: a task is overdue from the instant of its due date
isOverdue_NotStrict(task, clock) ==
  IF task.dueDate = Null \/ task.completed
    THEN FALSE
    ELSE task.dueDate[1] <= clock

\* what isOverdue() returns on task when new Date() reads clock
isOverdue(task, clock) ==
  IF task.dueDate = Null \/ task.completed
    THEN FALSE
    ELSE task.dueDate[1] < clock

\* the caller calls isOverdue() on the task it holds
isOverdueCall ==
  /\ entity.obj # <<>>
  /\ entity' = [entity EXCEPT !.op = "isOverdue", !.args = NoArgs,
                              !.err = NoError,
                              !.ret = isOverdue(entity.obj[1], now)]
  /\ UNCHANGED <<now, Store, client, app>>

\* new Date(date): a Date object of its own with the time value of date (a
\* Date is its time value here, so the copy is that value)
copyDate(d) == d

\* clone(): new Task(...) on copies of the fields; the constructor validates
\* them against the clock, so the call throws what the constructor throws
clone ==
  /\ entity.obj # <<>>
  /\ LET t == entity.obj[1]
         dueDate == IF t.dueDate # Null THEN <<copyDate(t.dueDate[1])>> ELSE Null
         err == TaskError(t.id, t.title, dueDate, now)
     IN entity' = [entity EXCEPT
                     !.op = "clone", !.args = NoArgs, !.err = err, !.ret = FALSE,
                     !.copy = IF err = NoError
                                THEN <<Task(t.id, t.title, t.description,
                                            t.completed, dueDate,
                                            copyDate(t.createdAt))>>
                                ELSE @]
  /\ UNCHANGED <<now, Store, client, app>>

\* the caller goes on with the other of the two tasks it holds
turn ==
  /\ entity.obj # <<>> /\ entity.copy # <<>>
  /\ entity' = [entity EXCEPT !.obj = entity.copy, !.copy = entity.obj]
  /\ UNCHANGED <<now, Store, client, app>>

\* --------------------------------------------------------- specifications
\* the statement callbacks of the data operations
Callbacks ==
  \/ \E p \in pending : addTaskCallback(p)
  \/ \E p \in pending : getTasksCallback(p)
  \/ \E p \in pending : getTaskByIdCallback(p)
  \/ \E p \in pending : selectCallback(p)
  \/ \E p \in pending : updateCallback(p)
  \/ \E p \in pending : deleteTaskCallback(p)
  \/ \E p \in pending : getTaskCountCallback(p)
  \/ \E p \in pending : getCompletedCountCallback(p)
  \/ \E p \in pending : clearAllCallback(p)
  \/ \E p \in pending : closeCallback(p)
  \/ \E p \in pending : FailStatement(p)

\* The store as the test suite uses it: initialize() has resolved on a new
\* in-memory store, then data operations are issued, then close()
InitReady ==
  /\ now = 0
  /\ dbPath = ":memory:"
  /\ db = 1
  /\ conns = [c \in Conns |-> IF c = 1 THEN "open" ELSE "unused"]
  /\ initP = [c \in Conns |-> IF c = 1 THEN "resolved" ELSE "none"]
  /\ schema = {1}
  /\ tables = [s \in Storages |-> {}]
  /\ pending = {}
  /\ last = Outcome("initialize", "", "ok")
  /\ calls = 0
  /\ batch = NoBatch
  /\ http = [r \in Requests |-> NoRequest]
  /\ entity = NoEntity
  /\ client = [f \in Fetches |-> NoCall]
  /\ app = NoApp

Next ==
  \/ Tick
  \/ close
  \/ \E task \in NewTasks : addTask(task)
  \/ getTasks
  \/ \E id \in Ids : getTaskById(id)
  \/ \E id \in Ids, upd \in UpdateInputs : updateTask(id, upd)
  \/ \E id \in Ids : deleteTask(id)
  \/ getTaskCount
  \/ getCompletedCount
  \/ clearAll
  \/ Callbacks

Spec == InitReady /\ [][Next]_vars

\* The whole lifecycle from construction, with one id and one update
LifecycleTasks == {Task("t1", TitleA, "", FALSE, Null, now)}

LifecycleUpdates == {[NoUpdates EXCEPT !.completed = <<TRUE>>]}

NextLifecycle ==
  \/ initialize
  \/ \E c \in Conns : OpenFailed(c)
  \/ \E c \in Conns : Opened(c)
  \/ \E p \in pending : createTable(p)
  \/ \E p \in pending : NoTable(p)
  \/ close
  \/ \E task \in LifecycleTasks : addTask(task)
  \/ getTasks
  \/ getTaskById("t1")
  \/ \E upd \in LifecycleUpdates : updateTask("t1", upd)
  \/ deleteTask("t1")
  \/ getTaskCount
  \/ getCompletedCount
  \/ clearAll
  \/ Callbacks

SpecLifecycle == Init /\ [][NextLifecycle]_vars

\* The server: requests arrive at the routes of a Ready store that may hold
\* a task created earlier
RouteIds == {"t1", "t2"}

PostBodies ==
  {[NoBody EXCEPT !.title = <<TitleA>>],
   [NoBody EXCEPT !.title = <<TitleA>>, !.dueDate = << <<toISOString(0)>> >>],
   [NoBody EXCEPT !.title = <<TitleA>>, !.dueDate = << <<InvalidText>> >>],
   [NoBody EXCEPT !.title = <<LongTitle>>, !.description = <<"d">>],
   [NoBody EXCEPT !.title = <<BlankTitle>>],
   NoBody}

PatchBodies ==
  {[NoBody EXCEPT !.title = <<TitleB>>],
   [NoBody EXCEPT !.completed = <<TRUE>>, !.dueDate = <<Null>>],
   [NoBody EXCEPT !.dueDate = << <<toISOString(0)>> >>],
   [NoBody EXCEPT !.dueDate = << <<InvalidText>> >>],
   [NoBody EXCEPT !.title = <<LongTitle>>],
   [NoBody EXCEPT !.title = <<BlankTitle>>]}

InitRoutes ==
  /\ now = 0
  /\ dbPath = "tasks.db"
  /\ db = 1
  /\ conns = [c \in Conns |-> IF c = 1 THEN "open" ELSE "unused"]
  /\ initP = [c \in Conns |-> IF c = 1 THEN "resolved" ELSE "none"]
  /\ schema = {0}
  /\ \E T \in {{}, {TaskToRow(Task("t1", TitleA, "", FALSE, Null, 0))},
                {TaskToRow(Task("t1", TitleA, "", FALSE, <<0>>, 0))}} :
       tables = [s \in Storages |-> IF s = 0 THEN T ELSE {}]
  /\ pending = {}
  /\ last = Outcome("initialize", "", "ok")
  /\ calls = 0
  /\ batch = NoBatch
  /\ http = [r \in Requests |-> NoRequest]
  /\ entity = NoEntity
  /\ client = [f \in Fetches |-> NoCall]
  /\ app = NoApp

NextRoutes ==
  \/ Tick
  \/ \E r \in Requests, body \in PostBodies : Request(r, "POST", "", body)
  \/ \E r \in Requests, id \in RouteIds, body \in PatchBodies :
       Request(r, "PATCH", id, body)
  \/ \E r \in Requests, id \in RouteIds : PostTask(r, id)
  \/ \E r \in Requests : PostAfterAdd(r)
  \/ \E r \in Requests : PatchTask(r)
  \/ \E r \in Requests : PatchAfterGet(r)
  \/ \E r \in Requests : PatchAfterUpdate(r)
  \/ \E r \in Requests : PatchAfterReget(r)
  \/ \E p \in pending : addTaskCallback(p)
  \/ \E p \in pending : getTaskByIdCallback(p)
  \/ \E p \in pending : selectCallback(p)
  \/ \E p \in pending : updateCallback(p)

SpecRoutes == InitRoutes /\ [][NextRoutes]_vars

\* The statistics route of the server while the handlers of other requests
\* write to the store: POST /tasks adds an open task, PATCH /tasks/:id/complete
\* completes one, DELETE /tasks/:id removes one; shutdown closes the store
NextStats ==
  \/ \E r \in Requests : Request(r, "STATS", "", NoBody)
  \/ \E r \in Requests : StatsSummary(r)
  \/ \E r \in Requests : StatsAfterTotal(r)
  \/ \E r \in Requests : StatsAfterCompleted(r)
  \/ \E id \in RouteIds : addTask(Task(id, TitleA, "", FALSE, Null, now))
  \/ \E id \in RouteIds :
       updateTask(id, [NoUpdates EXCEPT !.completed = <<TRUE>>])
  \/ \E id \in RouteIds : deleteTask(id)
  \/ close
  \/ \E p \in pending : getTaskCountCallback(p)
  \/ \E p \in pending : getCompletedCountCallback(p)
  \/ \E p \in pending : addTaskCallback(p)
  \/ \E p \in pending : selectCallback(p)
  \/ \E p \in pending : updateCallback(p)
  \/ \E p \in pending : deleteTaskCallback(p)
  \/ \E p \in pending : closeCallback(p)
  \/ \E p \in pending : FailStatement(p)

SpecStats == InitRoutes /\ [][NextStats]_vars

\* The TaskClient of the frontend calling the server: a caller makes one
\* createTask or updateTask call at a time, with valid and invalid input,
\* and a request or its response may be lost
ClientUpdates ==
  {[NoUpdates EXCEPT !.completed = <<TRUE>>],
   [NoUpdates EXCEPT !.title = <<BlankTitle>>]}

NextClient ==
  \/ \E title \in {TitleA, BlankTitle} : createTask(title, "", Null)
  \/ \E updates \in ClientUpdates : TaskClient_updateTask("t1", updates)
  \/ \E f \in Fetches, r \in Requests : Fetch(f, r)
  \/ \E f \in Fetches : FetchFails(f)
  \/ \E f \in Fetches : Lose(f)
  \/ \E f \in Fetches : Receive(f)
  \/ \E r \in Requests, id \in RouteIds : PostTask(r, id)
  \/ \E r \in Requests : PostAfterAdd(r)
  \/ \E r \in Requests : PatchTask(r)
  \/ \E r \in Requests : PatchAfterGet(r)
  \/ \E r \in Requests : PatchAfterUpdate(r)
  \/ \E r \in Requests : PatchAfterReget(r)
  \/ \E p \in pending : addTaskCallback(p)
  \/ \E p \in pending : getTaskByIdCallback(p)
  \/ \E p \in pending : selectCallback(p)
  \/ \E p \in pending : updateCallback(p)

SpecClient == InitRoutes /\ [][NextClient]_vars

\* The steps that are not the caller's: the timer of retryDelay fires, fetch
\* settles, the handlers run and sqlite calls back; none of them waits forever
ClientProgress ==
  \/ \E f \in Fetches, r \in Requests : Fetch(f, r)
  \/ \E f \in Fetches : FetchFails(f)
  \/ \E f \in Fetches : Lose(f)
  \/ \E f \in Fetches : Receive(f)
  \/ \E r \in Requests, id \in RouteIds : PostTask(r, id)
  \/ \E r \in Requests : PostAfterAdd(r)
  \/ \E r \in Requests : PatchTask(r)
  \/ \E r \in Requests : PatchAfterGet(r)
  \/ \E r \in Requests : PatchAfterUpdate(r)
  \/ \E r \in Requests : PatchAfterReget(r)
  \/ \E p \in pending : addTaskCallback(p)
  \/ \E p \in pending : getTaskByIdCallback(p)
  \/ \E p \in pending : selectCallback(p)
  \/ \E p \in pending : updateCallback(p)

FairClient == SpecClient /\ WF_vars(ClientProgress)

\* The frontend in a browser: the app is initialized and the user adds,
\* toggles and deletes tasks while earlier handlers are still running; the
\* network is reliable and the server holds a task created earlier
NextApp ==
  \/ \E healthy \in BOOLEAN : TaskManagerApp_initialize(healthy)
  \/ \E title \in {TitleA, BlankTitle} : handleAddTask(title, "")
  \/ \E id \in RouteIds, completed \in BOOLEAN : handleToggleTask(id, completed)
  \/ \E id \in RouteIds : handleDeleteTask(id)
  \/ \E k \in Handlers : HandlerAfterCall(k)
  \/ \E k \in Handlers : LoadTasksAfterAll(k)
  \/ \E f \in Fetches, r \in Requests : Fetch(f, r)
  \/ \E f \in Fetches : Receive(f)
  \/ \E r \in Requests : GetTasks(r)
  \/ \E r \in Requests : GetAfterGetTasks(r)
  \/ \E r \in Requests : StatsSummary(r)
  \/ \E r \in Requests : StatsAfterTotal(r)
  \/ \E r \in Requests : StatsAfterCompleted(r)
  \/ \E r \in Requests, id \in RouteIds : PostTask(r, id)
  \/ \E r \in Requests : PostAfterAdd(r)
  \/ \E r \in Requests : PatchTask(r)
  \/ \E r \in Requests : PatchAfterGet(r)
  \/ \E r \in Requests : PatchAfterUpdate(r)
  \/ \E r \in Requests : PatchAfterReget(r)
  \/ \E r \in Requests : DeleteTask(r)
  \/ \E r \in Requests : DeleteAfterGet(r)
  \/ \E r \in Requests : DeleteAfterDelete(r)
  \/ \E p \in pending : getTasksCallback(p)
  \/ \E p \in pending : getTaskCountCallback(p)
  \/ \E p \in pending : getCompletedCountCallback(p)
  \/ \E p \in pending : addTaskCallback(p)
  \/ \E p \in pending : getTaskByIdCallback(p)
  \/ \E p \in pending : selectCallback(p)
  \/ \E p \in pending : updateCallback(p)
  \/ \E p \in pending : deleteTaskCallback(p)

SpecApp == InitRoutes /\ [][NextApp]_vars

\* A caller that constructs tasks and calls the methods of the task it holds
PaddedTitle == Title(1, 1)
FullTitle == Title(0, MaxTitleLength)
PaddedLongTitle == Title(1, MaxTitleLength)
BlankLongTitle == Title(MaxTitleLength + 1, 0)

EntityTitles ==
  {TitleA, PaddedTitle, FullTitle, EmptyTitle, BlankTitle, LongTitle,
   PaddedLongTitle, BlankLongTitle}

EntityIds == {"t1", "", " "}

DueDates == {Null} \cup {<<d>> : d \in 0..MaxTime}

NextEntity ==
  \/ Tick
  \/ \E id \in EntityIds, title \in EntityTitles, dueDate \in DueDates :
       construct(id, title, "", FALSE, dueDate)
  \/ complete
  \/ reopen
  \/ \E title \in EntityTitles : updateTitle(title)
  \/ updateDescription("d")
  \/ \E date \in DueDates : setDueDate(date)
  \/ isOverdueCall

SpecEntity == InitReady /\ [][NextEntity]_vars

\* A caller that adds a task to a Ready store and then issues updateTask and
\* deleteTask calls on it without awaiting one another
ConcurrentUpdates ==
  {[NoUpdates EXCEPT !.title = <<TitleB>>],
   [NoUpdates EXCEPT !.completed = <<TRUE>>],
   [NoUpdates EXCEPT !.description = <<"d">>]}

NextUpdates ==
  \/ addTask(Task("t1", TitleA, "", FALSE, Null, now))
  \/ \E upd \in ConcurrentUpdates : updateTask("t1", upd)
  \/ deleteTask("t1")
  \/ close
  \/ \E p \in pending : addTaskCallback(p)
  \/ \E p \in pending : selectCallback(p)
  \/ \E p \in pending : updateCallback(p)
  \/ \E p \in pending : deleteTaskCallback(p)
  \/ \E p \in pending : closeCallback(p)
  \/ \E p \in pending : FailStatement(p)

SpecUpdates == InitReady /\ [][NextUpdates]_vars

\* A caller that constructs a task, clones it and calls the methods of the
\* original and of the clone
NextClone ==
  \/ Tick
  \/ \E dueDate \in DueDates : construct("t1", TitleA, "", FALSE, dueDate)
  \/ complete
  \/ reopen
  \/ updateTitle(TitleB)
  \/ updateDescription("d")
  \/ \E date \in DueDates : setDueDate(date)
  \/ clone
  \/ turn

SpecClone == InitReady /\ [][NextClone]_vars

\* A caller that constructs a task, calls its methods, hands it to addTask of
\* a Ready store, reads it back and updates the stored task, awaiting each
\* call of the store before its next step (as the tests of the store do)
PersistUpdates ==
  {[NoUpdates EXCEPT !.completed = <<TRUE>>],
   [NoUpdates EXCEPT !.title = <<TitleB>>, !.dueDate = << <<MaxTime>> >>]}

\* the caller is not waiting for a promise of the store
Awaited == pending = {}

NextPersist ==
  \/ Tick
  \/ (Awaited /\ construct("t1", TitleA, "", FALSE, Null))
  \/ (Awaited /\ complete)
  \/ (Awaited /\ reopen)
  \/ (Awaited /\ updateTitle(TitleB))
  \/ (Awaited /\ updateDescription("d"))
  \/ \E date \in DueDates : (Awaited /\ setDueDate(date))
  \/ (Awaited /\ entity.obj # <<>> /\ addTask(entity.obj[1]))
  \/ (Awaited /\ getTaskById("t1"))
  \/ \E upd \in PersistUpdates : (Awaited /\ updateTask("t1", upd))
  \/ (Awaited /\ close)
  \/ \E p \in pending : addTaskCallback(p)
  \/ \E p \in pending : getTaskByIdCallback(p)
  \/ \E p \in pending : selectCallback(p)
  \/ \E p \in pending : updateCallback(p)
  \/ \E p \in pending : closeCallback(p)

SpecPersist == InitReady /\ [][NextPersist]_vars

\* ================================================================== claims
\* statement p is taken out of sqlite's hands by this step
Consumed(p) == p \in pending /\ p \notin pending'

RowOf(T, id) == {r \in T : r.id = id}

\* C1 (as claimed): every stored task stays readable as the clock advances:
\* no getTaskById or getTasks fails to rebuild a row whose dueDate was valid
\* when it was set.
C1_StoredTasksStayReadable ==
  last.op \in {"getTaskById", "getTasks"} => last.res # ParseFailure

\* C2 (as claimed): updateTask(id, {dueDate: null}) that resolves leaves the
\* stored dueDate of that row null.
C2_NullClearsDueDate ==
  [][\A p \in pending :
       (/\ p.op = "update" /\ Consumed(p)
        /\ p.upd.dueDate = <<Null>>
        /\ last'.op = "updateTask" /\ last'.res = "ok")
       => \A r \in RowOf(tables'[Storage(p.conn)], p.id) : r.dueDate = Null]_vars

\* C3 (as claimed): Closed is terminal: no data operation called after a
\* close() completed on a Ready store succeeds.
C3_ClosedIsTerminal ==
  (last.op \in DataOps /\ last.phase = "Closed") => ~Succeeded(last)

\* C4 (as claimed): a data operation called before any initialize() has
\* succeeded is stopped by the NotInitialized guard: it never reaches sqlite
\* and its promise rejects with "Database not initialized".
C4_NotInitializedBeforeReady ==
  /\ \A p \in pending :
       p.op \notin {"createTable", "close"} => p.phase # "Uninitialized"
  /\ (last.op \in DataOps /\ last.phase = "Uninitialized")
       => last.res = NotInitialized

\* C5: while initialize() has never been called, every data operation rejects
\* with "Database not initialized", hands nothing to sqlite and changes no
\* state.
NeverInitialized == \A c \in Conns : conns[c] = "unused"

C5_UninitializedRejects ==
  [][NeverInitialized =>
       /\ pending' = pending
       /\ (last' # last /\ last'.op \in DataOps) =>
            /\ last'.res = NotInitialized
            /\ UNCHANGED <<db, conns, initP, schema, tables, calls>>]_vars

C5_Witness ==
  /\ NeverInitialized
  /\ last.op = "updateTask" /\ last.res = NotInitialized

\* C6: addTask with an id that is already stored rejects and leaves the table
\* exactly as it was; in every state no two rows share an id.
UniqueIds(T) == \A r1, r2 \in T : r1.id = r2.id => r1 = r2

C6_DuplicateAddRejected ==
  [][/\ \A s \in Storages : UniqueIds(tables'[s])
     /\ \A p \in pending :
          (/\ p.op = "addTask" /\ Consumed(p)
           /\ RowOf(tables[Storage(p.conn)], p.id) # {})
          => /\ last'.op = "addTask" /\ last'.id = p.id
             /\ ~Succeeded(last')
             /\ tables' = tables]_vars

C6_Witness ==
  /\ last.op = "addTask" /\ last.res = DuplicateId
  /\ \E s \in Storages : RowOf(tables[s], last.id) # {}

\* C7: N addTask calls with pairwise distinct, new ids that are in flight
\* together all succeed, and once they have completed the table holds the
\* previous number of rows plus N (which getTaskCount then reports).
C7_ConcurrentAdds ==
  (batch.clean /\ Writers = {} /\ db # 0) =>
     /\ batch.ok = Cardinality(batch.ids)
     /\ Cardinality(tables[Storage(db)]) = batch.count + Cardinality(batch.ids)
     /\ (last.op = "getTaskCount" /\ last.res = "ok" /\ pending = {})
          => last.n = batch.count + Cardinality(batch.ids)

C7_Witness ==
  /\ batch.clean /\ Writers = {} /\ db # 0
  /\ Cardinality(batch.ids) >= 2
  /\ batch.ok = Cardinality(batch.ids)
  /\ batch.count >= 1

\* C8 (as claimed): an updateTask that resolves, on a row nobody changed since
\* the call read it, changes exactly the supplied fields of the row and leaves
\* its other fields, its id and createdAt, and every other row unchanged.
SuppliedRow(r, upd) ==
  [id |-> r.id,
   createdAt |-> r.createdAt,
   title |-> IF upd.title = Undefined THEN r.title ELSE upd.title[1],
   description |-> IF upd.description = Undefined
                     THEN r.description ELSE upd.description[1],
   completed |-> IF upd.completed = Undefined THEN r.completed
                 ELSE IF upd.completed[1] THEN 1 ELSE 0,
   dueDate |-> IF upd.dueDate = Undefined THEN r.dueDate
               ELSE IF upd.dueDate[1] = Null THEN Null
               ELSE <<[iso |-> upd.dueDate[1][1]]>>]

C8_UpdateChangesExactlySupplied ==
  [][\A p \in pending :
       (/\ p.op = "update" /\ Consumed(p)
        /\ RowOf(tables[Storage(p.conn)], p.id) = {p.seen[1]}
        /\ last'.op = "updateTask" /\ last'.res = "ok")
       => tables'[Storage(p.conn)] =
            {IF r.id = p.id THEN SuppliedRow(r, p.upd) ELSE r :
               r \in tables[Storage(p.conn)]}]_vars

\* C9 (as claimed): an updateTask on an existing row that supplies an empty,
\* blank or over-long title, or a dueDate in the past, rejects with the
\* validation error of the Task constructor and leaves the table unchanged.
SuppliedError(upd, clock) ==
  IF upd.title # Undefined /\ upd.title[1].body = 0
    THEN "Task title cannot be empty"
  ELSE IF upd.title # Undefined /\ upd.title[1].pad + upd.title[1].body > 255
    THEN "Task title cannot exceed 255 characters"
  ELSE IF /\ upd.dueDate # Undefined /\ upd.dueDate[1] # Null
          /\ upd.dueDate[1][1] < clock
    THEN "Due date cannot be in the past"
  ELSE NoError

C9_InvalidUpdateRejected ==
  [][\A p \in pending :
       (/\ p.op = "select" /\ Consumed(p) /\ conns[p.conn] = "open"
        /\ RowOf(tables[Storage(p.conn)], p.id) # {}
        /\ SuppliedError(p.upd, now) # NoError)
       => /\ last'.op = "updateTask" /\ last'.id = p.id
          /\ last'.res = SuppliedError(p.upd, now)
          /\ pending' = pending \ {p}
          /\ tables' = tables]_vars

\* C10: for an id that no row has, on an open store, getTaskById resolves with
\* null, deleteTask resolves, updateTask rejects with not found; none of them
\* changes the table or hands a further statement to sqlite.
C10_AbsentId ==
  [][\A p \in pending :
       (/\ p.op \in {"getTaskById", "deleteTask", "select"}
        /\ Consumed(p) /\ conns[p.conn] = "open"
        /\ RowOf(tables[Storage(p.conn)], p.id) = {})
       => /\ tables' = tables
          /\ pending' = pending \ {p}
          /\ last'.id = p.id
          /\ p.op = "getTaskById"
               => (last'.op = "getTaskById" /\ last'.res = "null")
          /\ p.op = "deleteTask"
               => (last'.op = "deleteTask" /\ last'.res = "ok")
          /\ p.op = "select"
               => (last'.op = "updateTask" /\ last'.res = NotFound)]_vars

C10_Witness ==
  /\ last.op = "updateTask" /\ last.res = NotFound
  /\ db # 0 /\ tables[Storage(db)] # {}
  /\ RowOf(tables[Storage(db)], last.id) = {}

C12_CloseAlwaysResolves ==
  [][/\ last'.op = "close" => last'.res = "ok"
     /\ (db = 0 /\ last' # last /\ last'.op = "close")
          => UNCHANGED <<db, conns, initP, schema, tables, pending>>]_vars

\* C13 (as claimed): every response to POST /tasks or PATCH /tasks/:id whose
\* error is a validation error of the entity (empty title, title longer than
\* 255 characters, due date in the past) has status 400, never 500.
ValidationErrors ==
  {"Task title cannot be empty", "Task title cannot exceed 255 characters",
   "Due date cannot be in the past"}

C13_ValidationErrorsAre400 ==
  \A r \in Requests :
    (http[r].stage = "done" /\ http[r].error \in ValidationErrors)
      => http[r].status = 400

\* C14 (as claimed): the constructor and updateTitle fail with "Task title
\* cannot exceed 255 characters" for every title longer than 255 characters,
\* whatever its characters.
C14_LongTitleIsTooLong ==
  (entity.op \in {"construct", "updateTitle"} /\ Length(entity.args.title) > 255)
    => entity.err = "Task title cannot exceed 255 characters"

\* C14 (amended): the constructor and updateTitle fail for every title longer
\* than 255 characters: with "Task title cannot exceed 255 characters" when
\* the title has a character that is not whitespace, and with "Task title
\* cannot be empty" when it consists of whitespace only.
C14_LongTitleRejected ==
  (entity.op \in {"construct", "updateTitle"} /\ Length(entity.args.title) > 255)
    => entity.err = IF entity.args.title.body = 0
                      THEN "Task title cannot be empty"
                      ELSE "Task title cannot exceed 255 characters"

C14_Witness ==
  /\ entity.op = "updateTitle" /\ Length(entity.args.title) > 255
  /\ entity.err = "Task title cannot exceed 255 characters"

\* C15 (as claimed): constructing a Task with no due date succeeds for every
\* non-empty id and every title whose trimmed form is non-empty and has at
\* most 255 characters, and the entity's title is the title passed in.
C15_TrimmedTitleConstructs ==
  (/\ entity.op = "construct" /\ entity.args.dueDate = Null
   /\ entity.args.id # ""
   /\ Length(Trim(entity.args.title)) \in 1..255)
    => /\ entity.err = NoError
       /\ entity.obj # <<>> /\ entity.obj[1].title = entity.args.title

\* C15 (amended): constructing a Task with no due date succeeds for every id
\* that is neither empty nor whitespace-only and every title whose trimmed
\* form is non-empty and whose untrimmed length (title.length) is at most
\* 255, and the entity's title is the title passed in, untrimmed.
C15_ValidTitleConstructs ==
  (/\ entity.op = "construct" /\ entity.args.dueDate = Null
   /\ entity.args.id \notin {"", " "}
   /\ Length(Trim(entity.args.title)) >= 1
   /\ Length(entity.args.title) <= 255)
    => /\ entity.err = NoError
       /\ entity.obj # <<>>
       /\ entity.obj[1].title = entity.args.title
       /\ entity.obj[1].id = entity.args.id

C15_Witness ==
  /\ entity.op = "construct" /\ entity.err = NoError
  /\ entity.args.title = PaddedTitle /\ entity.args.dueDate = Null
  /\ entity.obj # <<>> /\ entity.obj[1].title = PaddedTitle

\* C16: the constructor reports the first failing check in the order title,
\* id, dueDate: the title error when the title is empty, blank or over 255
\* characters, otherwise the id error when the id is empty or blank, otherwise
\* the due-date error when the due date is before now; whenever it throws, no
\* new entity exists.
InvalidTitle(title) == title.body = 0 \/ title.pad + title.body > 255

C16_FirstFailingCheck ==
  [][entity'.op = "construct" /\ entity' # entity =>
       LET a == entity'.args
       IN /\ InvalidTitle(a.title) =>
               entity'.err = IF a.title.body = 0
                               THEN "Task title cannot be empty"
                               ELSE "Task title cannot exceed 255 characters"
          /\ (~InvalidTitle(a.title) /\ a.id \in {"", " "}) =>
               entity'.err = "Task ID cannot be empty"
          /\ (~InvalidTitle(a.title) /\ a.id \notin {"", " "}
               /\ a.dueDate # Null /\ a.dueDate[1] < now) =>
               entity'.err = "Due date cannot be in the past"
          /\ entity'.err # NoError => entity'.obj = entity.obj]_vars

C16_Witness ==
  /\ entity.op = "construct"
  /\ InvalidTitle(entity.args.title) /\ entity.args.id = " "
  /\ entity.args.dueDate # Null /\ entity.args.dueDate[1] < now
  /\ entity.err = "Task title cannot exceed 255 characters"

\* C17: a mutator that throws leaves the entity as it was: updateTitle with an
\* empty, blank or over-255-character title throws and keeps the title;
\* setDueDate with a date before now throws "Due date cannot be in the past"
\* and keeps dueDate; setDueDate(null) never throws and leaves dueDate null
\* and the other fields as they were.
C17_FailingMutatorKeepsEntity ==
  [][/\ (entity'.op = "updateTitle" /\ entity' # entity
          /\ InvalidTitle(entity'.args.title))
         => (entity'.err # NoError /\ entity'.obj = entity.obj)
     /\ (entity'.op = "setDueDate" /\ entity' # entity
          /\ entity'.args.dueDate # Null /\ entity'.args.dueDate[1] < now)
         => /\ entity'.err = "Due date cannot be in the past"
            /\ entity'.obj = entity.obj
     /\ (entity'.op = "setDueDate" /\ entity' # entity
          /\ entity'.args.dueDate = Null)
         => /\ entity'.err = NoError
            /\ entity'.obj = <<[entity.obj[1] EXCEPT !.dueDate = Null]>>
     /\ (entity'.op \in {"updateTitle", "setDueDate"} /\ entity'.err # NoError)
         => entity'.obj = entity.obj]_vars

C17_Witness ==
  /\ entity.op = "setDueDate"
  /\ entity.err = "Due date cannot be in the past"
  /\ entity.obj # <<>> /\ entity.obj[1].dueDate # Null
  /\ entity.obj[1].dueDate # entity.args.dueDate

\* C18: isOverdue() is true exactly when dueDate is not null, completed is
\* false and dueDate is strictly before the clock; it is false whenever
\* completed is true; and when it turns from false to true on an entity that
\* no method touched, the clock has moved past the due date.
C18_OverdueExactly ==
  [][entity'.obj # <<>> =>
       LET t == entity'.obj[1]
       IN /\ (entity'.op = "isOverdue" /\ entity' # entity) =>
               /\ entity'.ret <=>
                    (t.dueDate # Null /\ ~t.completed /\ t.dueDate[1] < now)
               /\ t.completed => ~entity'.ret
               /\ entity'.obj = entity.obj
          /\ isOverdue(t, now') <=>
               (t.dueDate # Null /\ ~t.completed /\ t.dueDate[1] < now')
          /\ (entity' = entity /\ ~isOverdue(t, now) /\ isOverdue(t, now'))
               => (now <= t.dueDate[1] /\ t.dueDate[1] < now')]_vars

C18_Witness ==
  /\ entity.obj # <<>> /\ entity.op = "isOverdue" /\ entity.ret
  /\ ~entity.obj[1].completed
  /\ entity.obj[1].dueDate # Null /\ entity.obj[1].dueDate[1] < now

\* C19: the id and createdAt of a task never change after its creation: every
\* entity method leaves them as the constructor set them, addTask stores them
\* as the entity has them, and no step of the store (updateTask included)
\* changes the createdAt of a stored row.
C19_IdAndCreatedAtImmutable ==
  [][/\ (entity.obj # <<>> /\ entity'.obj # entity.obj
          /\ entity'.op # "construct")
         => /\ entity'.obj[1].id = entity.obj[1].id
            /\ entity'.obj[1].createdAt = entity.obj[1].createdAt
     /\ \A p \in pending' \ pending :
          p.op = "addTask" =>
            /\ p.row[1].id = entity.obj[1].id
            /\ p.row[1].createdAt = toISOString(entity.obj[1].createdAt)
     /\ \A p \in pending :
          (p.op = "addTask" /\ Consumed(p) /\ last'.res = "ok")
            => p.row[1] \in tables'[Storage(p.conn)]
     /\ \A s \in Storages : \A r \in tables[s], r2 \in tables'[s] :
          r.id = r2.id => r2.createdAt = r.createdAt]_vars

C19_Witness ==
  /\ last.op = "updateTask" /\ last.res = "ok"
  /\ entity.obj # <<>> /\ entity.obj[1].title = TitleB /\ entity.obj[1].completed
  /\ now > entity.obj[1].createdAt
  /\ \E r \in tables[Storage(1)] :
       /\ r.id = entity.obj[1].id
       /\ r.createdAt = toISOString(entity.obj[1].createdAt)
       /\ r.completed = 1

\* C20: on a Ready store with no other operation in flight getTaskCount()
\* resolves with the number of stored rows and getCompletedCount() with the
\* number of rows whose completed column is 1, a number between 0 and the
\* number of rows; an addTask that succeeds adds one row, a deleteTask of a
\* stored id removes one row, and a clearAll that succeeds leaves no row.
Completed(T) == {r \in T : r.completed = 1}

C20_CountsMatchRows ==
  [][\A p \in pending :
       (Consumed(p) /\ CanRun(p) /\ HasTable(p)) =>
         LET T == tables[Storage(p.conn)]
             U == tables'[Storage(p.conn)]
         IN /\ (p.op = "getTaskCount" /\ pending = {p}) =>
                 /\ last'.op = "getTaskCount" /\ last'.res = "ok"
                 /\ last'.n = Cardinality(T) /\ U = T
            /\ (p.op = "getCompletedCount" /\ pending = {p}) =>
                 /\ last'.op = "getCompletedCount" /\ last'.res = "ok"
                 /\ last'.n = Cardinality(Completed(T)) /\ U = T
                 /\ 0 <= last'.n /\ last'.n <= Cardinality(T)
            /\ (p.op = "addTask" /\ last'.res = "ok") =>
                 Cardinality(U) = Cardinality(T) + 1
            /\ (p.op = "deleteTask" /\ RowOf(T, p.id) # {}) =>
                 /\ last'.res = "ok"
                 /\ Cardinality(U) = Cardinality(T) - 1
            /\ p.op = "clearAll" =>
                 /\ last'.res = "ok"
                 /\ U = {} /\ Completed(U) = {}]_vars

C20_Witness ==
  /\ last.op = "getCompletedCount" /\ last.res = "ok" /\ pending = {}
  /\ db # 0
  /\ last.n = 1
  /\ Completed(tables[Storage(db)]) # {}

\* C21 (as claimed): addTask stores the fields of the task it is handed; a
\* getTaskById of a stored id resolves with a Task whose id, title,
\* description, completed, createdAt and dueDate are those of the row, and
\* changes nothing in the table; no method call on a Task the caller holds
\* changes the table.
SameFields(task, row) ==
  /\ task.id = row.id /\ task.title = row.title
  /\ task.description = row.description
  /\ task.completed <=> row.completed = 1
  /\ toISOString(task.createdAt) = row.createdAt
  /\ row.dueDate = IF task.dueDate = Null
                     THEN Null ELSE <<toISOString(task.dueDate[1])>>

C21_StoreRoundTrip ==
  [][/\ \A p \in pending' \ pending :
          p.op = "addTask" => SameFields(entity.obj[1], p.row[1])
     /\ \A p \in pending :
          (p.op = "addTask" /\ Consumed(p) /\ last'.res = "ok")
            => p.row[1] \in tables'[Storage(p.conn)]
     /\ \A p \in pending :
          (/\ p.op = "getTaskById" /\ Consumed(p) /\ conns[p.conn] = "open"
           /\ RowOf(Rows(p), p.id) # {})
          => /\ last'.op = "getTaskById" /\ last'.res = "ok"
             /\ last'.task # <<>>
             /\ \A r \in RowOf(Rows(p), p.id) : SameFields(last'.task[1], r)
             /\ tables' = tables
     /\ entity' # entity => tables' = tables]_vars

\* C22 (as claimed): clone() returns a Task whose id, title, description,
\* completed, createdAt and dueDate equal those of the original and leaves the
\* original as it was; a later method call on one of the two changes no field
\* of the other.
C22_CloneIndependent ==
  [][/\ (entity'.op = "clone" /\ entity' # entity) =>
          /\ entity'.err = NoError
          /\ entity'.copy = entity.obj
          /\ entity'.obj = entity.obj
     /\ entity'.copy # entity.copy =>
          \/ entity'.op = "clone"
          \/ (entity'.copy = entity.obj /\ entity'.obj = entity.copy)]_vars

\* C30 (as claimed): clone() never throws on a task that was constructed
\* successfully and changed only through its methods, at any clock value.
C30_CloneIsTotal ==
  entity.op = "clone" => entity.err = NoError

\* C25 (as claimed): two updateTask calls on one id that supply disjoint
\* fields both take effect: a write of updateTask that resolves keeps, in the
\* fields its call did not supply, whatever another updateTask has written to
\* the row since the call read it.
C25_BothUpdatesTakeEffect ==
  [][\A p \in pending :
       (/\ p.op = "update" /\ Consumed(p) /\ CanRun(p)
        /\ last'.op = "updateTask" /\ last'.res = "ok")
       => \A r \in RowOf(Rows(p), p.id) :
            \A r2 \in RowOf(tables'[Storage(p.conn)], p.id) :
              /\ p.upd.title = Undefined => r2.title = r.title
              /\ p.upd.description = Undefined => r2.description = r.description
              /\ p.upd.completed = Undefined => r2.completed = r.completed]_vars

\* C25 (amended): the write of an updateTask that resolves sets title,
\* description and completed of the row to the supplied values and, for the
\* fields its call did not supply, to the values of the row its own read saw,
\* leaving id and createdAt; so of two overlapping calls the one whose write
\* runs last wins, and the other's change is lost when it was written after
\* the winner's read.
C25_LastWriteWins ==
  [][\A p \in pending :
       (/\ p.op = "update" /\ Consumed(p) /\ CanRun(p)
        /\ last'.op = "updateTask" /\ last'.res = "ok")
       => /\ p.seen # <<>>
          /\ \A r \in RowOf(Rows(p), p.id) :
               /\ Cardinality(RowOf(tables'[Storage(p.conn)], p.id)) = 1
               /\ \A r2 \in RowOf(tables'[Storage(p.conn)], p.id) :
                    /\ r2.title = SuppliedRow(p.seen[1], p.upd).title
                    /\ r2.description = SuppliedRow(p.seen[1], p.upd).description
                    /\ r2.completed = SuppliedRow(p.seen[1], p.upd).completed
                    /\ r2.id = r.id /\ r2.createdAt = r.createdAt]_vars

C25_Witness ==
  /\ last.op = "updateTask" /\ last.res = "ok" /\ pending = {}
  /\ last.seen # <<>> /\ last.seen[1].title = TitleA
  /\ last.over # <<>> /\ last.over[1].title = TitleB
  /\ db # 0
  /\ \E r \in RowOf(tables[Storage(db)], last.id) :
       r.title = TitleA /\ r.completed = 1

\* C26 (as claimed): an updateTask that resolves has overwritten a row: a row
\* with its id existed at the moment of its write; and no write of an
\* updateTask brings back a row that a deleteTask has removed.
C26_UpdateNeedsRow ==
  [][\A p \in pending :
       (/\ p.op = "update" /\ Consumed(p) /\ CanRun(p)
        /\ last'.op = "updateTask" /\ last'.res = "ok")
       => /\ RowOf(Rows(p), p.id) # {}
          /\ RowOf(tables'[Storage(p.conn)], p.id) # {}]_vars

\* C28 (as claimed): every statistics response has completed <= total and
\* pending = total - completed >= 0.
C28_StatsConsistent ==
  \A r \in Requests :
    (http[r].route = "STATS" /\ http[r].stage = "done" /\ http[r].status = 200)
      => /\ http[r].stats.completed <= http[r].stats.total
         /\ http[r].stats.pending =
              http[r].stats.total - http[r].stats.completed
         /\ http[r].stats.pending >= 0

\* C23 (as claimed): when the response to a createTask or updateTask call is
\* a validation failure (HTTP 400), the call rejects with that error at once:
\* the request is not sent again.
C23_ValidationNotRetried ==
  [][\A f \in Fetches :
       (/\ client[f].op \in {"createTask", "updateTask"}
        /\ client[f].stage = "sent"
        /\ http[client[f].slot].stage = "done"
        /\ http[client[f].slot].status = 400
        /\ client'[f].failed = client[f].failed + 1
        /\ client'[f].thrown = http[client[f].slot].error)
       => /\ client'[f].stage = "rejected"
          /\ client'[f].error = http[client[f].slot].error]_vars

\* C24: fn is called at most maxRetries + 1 = 4 times per call; a call
\* rejects only after 4 calls of fn that all threw, and with the error of
\* the last one; a call resolves with the first call of fn that returns,
\* which is its last; and every call that was made resolves or rejects.
C24_Attempts ==
  \A f \in Fetches :
    /\ client[f].attempts <= MaxRetries + 1
    /\ client[f].stage = "rejected"
         => /\ client[f].attempts = MaxRetries + 1
            /\ client[f].failed = client[f].attempts
            /\ client[f].error = client[f].thrown
    /\ client[f].stage = "resolved"
         => client[f].failed = client[f].attempts - 1

C24_RetryLoopTerminates ==
  /\ []C24_Attempts
  /\ \A f \in Fetches : (~Idle(client[f])) ~> Idle(client[f])

\* a call has rejected after four attempts, the last of them answered 400
C24_Witness ==
  \E f \in Fetches :
    /\ client[f].stage = "rejected" /\ client[f].attempts = MaxRetries + 1
    /\ client[f].error = "Task title is required"

\* C27 (as claimed): while a createTask call is the latest call of the
\* client, the store holds at most one row more than when it was made.
C27_AtMostOneRow ==
  \A f \in Fetches :
    client[f].op = "createTask"
      => Cardinality(tables[Storage(db)]) <= client[f].base + 1

\* C29 (as claimed): when no handler is running and isLoading is false, and
\* some event handler has completed its mutation, the list last passed to
\* renderTasks is the list of the tasks the server stores.
Quiescent ==
  /\ ~app.isLoading
  /\ \A k \in Handlers : app.handlers[k].stage \in {"idle", "done"}

C29_ViewConverges ==
  (Quiescent /\ \E k \in Handlers : app.handlers[k].ok)
    => /\ app.rendered # <<>>
       /\ {app.rendered[1][i] : i \in 1..Len(app.rendered[1])} =
            {toJSON(rowToTask(r)) : r \in tables[Storage(db)]}

====
